---- MODULE Spec2Model ----
(***************************************************************************)
(* The signalling relay of backend/src/api/websocket.py as a state machine.*)
(* One asyncio task runs handle_websocket per accepted socket; the tasks   *)
(* interleave at their await points only, so every action below is the     *)
(* code a task runs from one resumption to its next suspension, with the   *)
(* one access to shared state (a database statement, or a registry / chat  *)
(* buffer access together with the send that follows it without an await). *)
(***************************************************************************)
EXTENDS Integers, Sequences, FiniteSets, Bags, TLC

\* The sockets the server may accept: one handle_websocket task each.
Conn == {"w1", "w2", "w3"}

\* The client ids a caller may put in the URL /ws/{meeting_code}/{client_id}.
Clients == {"A", "B", "C"}

\* The meeting codes a caller may put in the URL; "zz" has no Meeting row.
Codes == {"r1", "r2", "zz"}

None == "None"

VARIABLES
    meetings,            \* table meetings: code -> row
    participants,        \* table participants: row id -> row (the id is the socket that inserted it)
    logs,                \* table meeting_logs: a bag of rows
    active_connections,  \* websocket.py:17, meeting_code -> dict client_id -> websocket (insertion ordered)
    chat_messages,       \* websocket.py:21, meeting_code -> list of chat_data
    pc,                  \* where each handle_websocket task is suspended
    meeting_code,        \* the meeting_code argument of each task
    client_id,           \* the client_id argument of each task
    loc,                 \* the local variables of each task
    outbox,              \* what each websocket has been sent (send_json calls that succeeded)
    close_code,          \* the code websocket.close was called with, 0 if it was not
    broken,              \* the peer of the socket is gone: receive raises, send raises
    clock,               \* datetime.now(UTC), as a logical clock
    budget,              \* what is left of the bounds of the run
    calls,               \* history: the last broadcast_to_meeting call of each task
    frame,               \* history: the last inbound frame the message loop took
    http                 \* the requests of the REST router of meetings.py: where each is, its response

vars == <<meetings, participants, logs, active_connections, chat_messages, pc,
          meeting_code, client_id, loc, outbox, close_code, broken, clock,
          budget, calls, frame, http>>

db == <<meetings, participants, logs>>

\* What no step of the relay changes: the meetings table, the arguments of
\* its tasks, and the requests the REST router is serving.
args == <<meetings, meeting_code, client_id, http>>

\* What no request of the REST router changes.
relay == <<participants, logs, active_connections, chat_messages, pc,
           meeting_code, client_id, loc, outbox, close_code, broken, clock,
           budget, calls, frame>>

-----------------------------------------------------------------------------
(* Python dict, as the sequence of its items in insertion order.            *)

DictHas(d, k) == \E i \in 1..Len(d) : d[i].client = k

DictKeys(d) == [i \in 1..Len(d) |-> d[i].client]

DictGet(d, k) == (CHOOSE i \in 1..Len(d) : d[i].client = k)

\* d[k] = ws: an existing key keeps its place, a new key goes last.
DictSet(d, k, ws) ==
    IF DictHas(d, k)
    THEN [i \in 1..Len(d) |-> IF d[i].client = k THEN [client |-> k, ws |-> ws] ELSE d[i]]
    ELSE Append(d, [client |-> k, ws |-> ws])

\* d.pop(k, None)
DictPop(d, k) == SelectSeq(d, LAMBDA e : e.client # k)

SeqToSet(s) == {s[i] : i \in 1..Len(s)}

-----------------------------------------------------------------------------
(* Messages on the wire: every message is [type, cid, body].                *)

Msg(t, c, b) == [type |-> t, cid |-> c, body |-> b]

NoMsg == Msg("none", None, <<>>)

NoCall == [active |-> FALSE, room |-> None, msg |-> NoMsg, exclude |-> None,
           snapshot |-> <<>>, attempts |-> <<>>, failed |-> {}, returned |-> FALSE]

NoLoc == [is_host |-> FALSE, participant |-> None, display_name |-> None,
          connections |-> <<>>, message |-> NoMsg, ret |-> None,
          participant_list |-> <<>>, participants_data |-> <<>>,
          enabled |-> TRUE]

\* A websocket on which send_json raises: the peer is gone, or the task that
\* owned it has returned and the server has closed it.
Dead(ws) == broken[ws] \/ pc[ws] \in {"done", "closed"}

-----------------------------------------------------------------------------
(* The tables, as the statements of websocket.py use them.                  *)

\* Participant(...) marking every new row host, whatever the count was.
NewHostParticipant(c, host) ==
    [meeting_id |-> meeting_code[c], client_id |-> client_id[c],
     display_name |-> None, is_active |-> TRUE, is_host |-> TRUE,
     audio_enabled |-> TRUE, video_enabled |-> TRUE, screen_sharing |-> FALSE,
     left_at |-> FALSE]

\* Participant(...) of handle_websocket with the column defaults of models.py.
NewParticipant(c, host) ==
    [meeting_id |-> meeting_code[c], client_id |-> client_id[c],
     display_name |-> None, is_active |-> TRUE, is_host |-> host,
     audio_enabled |-> TRUE, video_enabled |-> TRUE, screen_sharing |-> FALSE,
     left_at |-> FALSE]

MeetingLog(m, p, t) == [meeting_id |-> m, participant_id |-> p, event_type |-> t]

AddLog(row) == logs (+) SetToBag({row})

\* The count without the filter on is_active.
CountAllRows(m) ==
    Cardinality({r \in DOMAIN participants : participants[r].meeting_id = m})

\* select(func.count(Participant.id)).where(meeting_id == m).where(is_active)
ActiveCount(m) ==
    Cardinality({r \in DOMAIN participants :
                    participants[r].meeting_id = m /\ participants[r].is_active})

\* select(Participant).where(Participant.client_id == k): the rows it matches,
\* in every meeting, active or not.
RowsByClient(k) == {r \in DOMAIN participants : participants[r].client_id = k}

\* result.scalar_one_or_none(): "raise" stands for MultipleResultsFound.
ScalarOneOrNone(rows) ==
    IF rows = {} THEN None
    ELSE IF Cardinality(rows) = 1 THEN CHOOSE r \in rows : TRUE
    ELSE "raise"

\* One more persistence call of the run fails.
DbFailure ==
    /\ budget.dbfail > 0
    /\ budget' = [budget EXCEPT !.dbfail = @ - 1]

\* Frame taken also while the handler of the previous frame is suspended at
\* one of its awaits.
FrameAnytime(c, type, target) ==
    /\ pc[c] \in {"loop", "chatlog", "chatcommit", "chatcast", "bcast"}
    /\ ~broken[c]
    /\ budget.msgs[c] > 0
    /\ budget' = [budget EXCEPT !.msgs[c] = @ - 1]
    /\ frame' = [ws |-> c, type |-> type, target |-> target]

\* receive_text returns one more inbound frame of the run, of this type and target.
Frame(c, type, target) ==
    /\ pc[c] = "loop"
    /\ ~broken[c]
    /\ budget.msgs[c] > 0
    /\ budget' = [budget EXCEPT !.msgs[c] = @ - 1]
    /\ frame' = [ws |-> c, type |-> type, target |-> target]

-----------------------------------------------------------------------------
(* broadcast_to_meeting, websocket.py:363-379.                              *)

\* ws.send_json(msg) for the item e of the snapshot: what the websockets hold after it.
SendTo(out, e, msg) ==
    IF Dead(e.ws) THEN out ELSE [out EXCEPT ![e.ws] = Append(@, msg)]

\* The except branch without the pop of lines 378-379.
PruneNothing(reg, e, m) == reg

\* The except branch of the loop: the client id of a failed send is popped.
PruneFailed(reg, e, m) ==
    IF Dead(e.ws) /\ m \in DOMAIN reg
    THEN [reg EXCEPT ![m] = DictPop(@, e.client)]
    ELSE reg

\* Recipients without the skip of lines 371-372.
RecipientsAll(items, excl) == items

\* The items of the snapshot the loop does not skip.
Recipients(items, excl) == SelectSeq(items, LAMBDA e : e.client # excl)

\* AfterBroadcast with send_participants_update listing the joining client
\* alone instead of the keys of the room's registry entry.
AfterBroadcastListsSelf(c, reg, l, ret) ==
    IF ret = "plist"
    THEN /\ pc' = [pc EXCEPT ![c] = "pquery"]
         /\ loc' = [loc EXCEPT ![c] =
                [l EXCEPT !.connections = <<>>, !.message = NoMsg, !.ret = None,
                          !.participant_list = <<client_id[c]>>]]
    ELSE /\ pc' = [pc EXCEPT ![c] = ret]
         /\ loc' = [loc EXCEPT ![c] = NoLoc]

\* What the caller does when the broadcast returns: after user-joined,
\* send_participants_update reads the registry (line 193) before its first await;
\* every other caller goes to its next await without touching shared state.
AfterBroadcast(c, reg, l, ret) ==
    IF ret = "plist"
    THEN /\ pc' = [pc EXCEPT ![c] = "pquery"]
         /\ loc' = [loc EXCEPT ![c] =
                [l EXCEPT !.connections = <<>>, !.message = NoMsg, !.ret = None,
                          !.participant_list =
                              IF meeting_code[c] \in DOMAIN reg
                              THEN DictKeys(reg[meeting_code[c]]) ELSE <<>>]]
    ELSE /\ pc' = [pc EXCEPT ![c] = ret]
         /\ loc' = [loc EXCEPT ![c] = NoLoc]

\* One iteration of the loop of lines 370-379, for the head of the items left.
\* call is the history of the call so far.
BroadcastSend(c, reg, l, call, items, msg, ret) ==
    LET e == Head(items)
        rest == Tail(items)
        reg2 == PruneFailed(reg, e, meeting_code[c])
        last == rest = <<>> /\ ret # "plist"
    IN  /\ outbox' = SendTo(outbox, e, msg)
        /\ active_connections' = reg2
        /\ calls' = [calls EXCEPT ![c] =
               [call EXCEPT !.attempts = Append(@, e.ws),
                            !.failed = IF Dead(e.ws) THEN @ \cup {e.ws} ELSE @,
                            !.returned = last]]
        /\ IF last
           THEN AfterBroadcast(c, reg2, l, ret)
           ELSE /\ pc' = [pc EXCEPT ![c] = "bcast"]
                /\ loc' = [loc EXCEPT ![c] =
                       [l EXCEPT !.connections = rest, !.message = msg, !.ret = ret]]

\* The call, up to its first await: the snapshot of line 368 and the first send.
\* reg is the registry as the caller left it, l the caller's local variables.
StartBroadcast(c, reg, l, msg, excl, ret) ==
    LET m == meeting_code[c]
        snap == IF m \in DOMAIN reg THEN reg[m] ELSE <<>>
        items == Recipients(snap, excl)
        call == [active |-> TRUE, room |-> m, msg |-> msg, exclude |-> excl,
                 snapshot |-> snap, attempts |-> <<>>, failed |-> {},
                 returned |-> FALSE]
    IN  IF items = <<>>
        THEN /\ outbox' = outbox
             /\ active_connections' = reg
             /\ calls' = [calls EXCEPT ![c] = [call EXCEPT !.returned = TRUE]]
             /\ AfterBroadcast(c, reg, l, ret)
        ELSE BroadcastSend(c, reg, l, call, items, msg, ret)

\* The task resumes after a send and sends to the next item of its snapshot.
BroadcastStep(c) ==
    /\ pc[c] = "bcast"
    /\ loc[c].connections # <<>>
    /\ BroadcastSend(c, active_connections, loc[c], calls[c], loc[c].connections,
                     loc[c].message, loc[c].ret)
    /\ UNCHANGED <<db, args, chat_messages, close_code, broken, clock, budget, frame>>

\* The task resumes after the last send of the user-joined broadcast and
\* send_participants_update takes participant_list (line 193).
BroadcastReturn(c) ==
    /\ pc[c] = "bcast"
    /\ loc[c].connections = <<>>
    /\ calls' = [calls EXCEPT ![c].returned = TRUE]
    /\ AfterBroadcast(c, active_connections, loc[c], loc[c].ret)
    /\ UNCHANGED <<db, args, active_connections, chat_messages, outbox,
                   close_code, broken, clock, budget, frame>>

-----------------------------------------------------------------------------
(* handle_websocket, CONNECTING -> ACTIVE: websocket.py:33-139.             *)

Close(c, code) ==
    /\ pc' = [pc EXCEPT ![c] = "closed"]
    /\ close_code' = [close_code EXCEPT ![c] = code]
    /\ loc' = [loc EXCEPT ![c] = NoLoc]

\* Raise without the finally of lines 187-188: the task ends where it is.
RaiseSkipsCleanup(c) ==
    /\ pc' = [pc EXCEPT ![c] = "done"]
    /\ loc' = [loc EXCEPT ![c] = NoLoc]

\* An exception inside the try of lines 110-181: the finally of line 188 calls
\* handle_disconnect, which suspends at its first statement.
Raise(c) ==
    /\ pc' = [pc EXCEPT ![c] = "disconnect"]
    /\ loc' = [loc EXCEPT ![c] = NoLoc]

\* FindMeeting without the check of lines 50-52.
FindMeetingUnchecked(c) ==
    /\ pc[c] = "idle"
    /\ pc' = [pc EXCEPT ![c] = "count"]
    /\ UNCHANGED <<db, args, active_connections, chat_messages, outbox, broken,
                   clock, budget, calls, frame, close_code, loc>>

\* accept, then select(Meeting).where(code == meeting_code): lines 33-52.
FindMeeting(c) ==
    /\ pc[c] = "idle"
    /\ IF meeting_code[c] \in DOMAIN meetings
       THEN /\ pc' = [pc EXCEPT ![c] = "count"]
            /\ UNCHANGED <<close_code, loc>>
       ELSE Close(c, 1008)
    /\ UNCHANGED <<db, args, active_connections, chat_messages, outbox, broken,
                   clock, budget, calls, frame>>

\* The count of the active participants, and is_host: lines 55-61.
CountActive(c) ==
    /\ pc[c] = "count"
    /\ pc' = [pc EXCEPT ![c] = "commit"]
    /\ loc' = [loc EXCEPT ![c].is_host = ActiveCount(meeting_code[c]) = 0]
    /\ UNCHANGED <<db, args, active_connections, chat_messages, outbox,
                   close_code, broken, clock, budget, calls, frame>>

\* db.add(participant), db.add(log_entry), db.commit(): lines 64-86. The log
\* row takes participant.id before the flush that sets it: it is None.
CommitParticipant(c) ==
    /\ pc[c] = "commit"
    /\ participants' = participants @@ (c :> NewParticipant(c, loc[c].is_host))
    /\ logs' = AddLog(MeetingLog(meeting_code[c], None, "join"))
    /\ pc' = [pc EXCEPT ![c] = "refresh"]
    /\ loc' = [loc EXCEPT ![c] = NoLoc]
    /\ UNCHANGED <<args, active_connections, chat_messages, outbox,
                   close_code, broken, clock, budget, calls, frame>>

\* A statement of the setup fails: the except of lines 90-94 rolls back and
\* closes with 1011. At "refresh" the commit of line 86 has been done.
SetupFails(c) ==
    /\ pc[c] \in {"idle", "count", "commit", "refresh"}
    /\ DbFailure
    /\ Close(c, 1011)
    /\ UNCHANGED <<db, args, active_connections, chat_messages, outbox, broken,
                   clock, calls, frame>>

\* A chat-history of the last event alone.
ChatHistoryLast(chat) ==
    Msg("chat-history", None, IF chat = <<>> THEN <<>> ELSE <<chat[Len(chat)]>>)

\* The chat-history message of lines 113-116: the whole buffer.
ChatHistory(chat) == Msg("chat-history", None, chat)

\* Register assigning an empty list to chat_messages[meeting_code] without
\* the test of line 107.
RegisterResetsChat(c) ==
    LET m == meeting_code[c]
        d == IF m \in DOMAIN active_connections THEN active_connections[m] ELSE <<>>
    IN  /\ pc[c] = "refresh"
        /\ active_connections' =
               (m :> DictSet(d, client_id[c], c)) @@ active_connections
        /\ chat_messages' = (m :> <<>>) @@ chat_messages
        /\ IF Dead(c)
           THEN /\ Raise(c)
                /\ UNCHANGED outbox
           ELSE /\ outbox' = [outbox EXCEPT ![c] = Append(@, ChatHistory(<<>>))]
                /\ pc' = [pc EXCEPT ![c] = "name"]
                /\ UNCHANGED loc
        /\ UNCHANGED <<db, args, close_code, broken, clock, budget, calls, frame>>

\* db.refresh succeeds; the registration of lines 100-108 and the chat-history
\* of lines 112-116, sent to the new websocket.
Register(c) ==
    LET m == meeting_code[c]
        d == IF m \in DOMAIN active_connections THEN active_connections[m] ELSE <<>>
        chat == IF m \in DOMAIN chat_messages THEN chat_messages[m] ELSE <<>>
    IN  /\ pc[c] = "refresh"
        /\ active_connections' =
               (m :> DictSet(d, client_id[c], c)) @@ active_connections
        /\ chat_messages' = (m :> chat) @@ chat_messages
        /\ IF Dead(c)
           THEN /\ Raise(c)
                /\ UNCHANGED outbox
           ELSE /\ outbox' = [outbox EXCEPT ![c] = Append(@, ChatHistory(chat))]
                /\ pc' = [pc EXCEPT ![c] = "name"]
                /\ UNCHANGED loc
        /\ UNCHANGED <<db, args, close_code, broken, clock, budget, calls, frame>>

\* select(Participant).where(client_id == client_id) for the display name:
\* lines 119-129. MultipleResultsFound is caught by the except of line 128.
LookupName(c) ==
    LET p == ScalarOneOrNone(RowsByClient(client_id[c]))
    IN  /\ pc[c] = "name"
        /\ pc' = [pc EXCEPT ![c] = "joined"]
        /\ loc' = [loc EXCEPT ![c].display_name =
               IF p \in {None, "raise"} THEN None ELSE participants[p].display_name]
        /\ UNCHANGED <<db, args, active_connections, chat_messages, outbox,
                       close_code, broken, clock, budget, calls, frame>>

LookupNameFails(c) ==
    /\ pc[c] = "name"
    /\ DbFailure
    /\ pc' = [pc EXCEPT ![c] = "joined"]
    /\ UNCHANGED <<db, args, active_connections, chat_messages, outbox, loc,
                   close_code, broken, clock, calls, frame>>

\* The join going on to send_participants_update without the broadcast of
\* lines 131-136.
BroadcastJoinedSkipped(c) ==
    /\ pc[c] = "joined"
    /\ AfterBroadcast(c, active_connections, loc[c], "plist")
    /\ UNCHANGED <<db, args, active_connections, chat_messages, outbox,
                   close_code, broken, clock, budget, calls, frame>>

\* The user-joined broadcast of lines 131-136, excluding the new client.
BroadcastJoined(c) ==
    /\ pc[c] = "joined"
    /\ StartBroadcast(c, active_connections, loc[c],
                      Msg("user-joined", client_id[c], <<loc[c].display_name>>),
                      client_id[c], "plist")
    /\ UNCHANGED <<db, args, chat_messages, close_code, broken, clock, budget, frame>>

\* One row of participantsData, lines 207-213.
ParticipantData(p) ==
    [clientId |-> p.client_id, displayName |-> p.display_name,
     audioEnabled |-> p.audio_enabled, videoEnabled |-> p.video_enabled,
     screenSharing |-> p.screen_sharing]

\* The rows send_participants_update reports, lines 198-213.
ReportedRows(m, list) ==
    {r \in DOMAIN participants :
        /\ participants[r].meeting_id = m
        /\ participants[r].is_active
        /\ participants[r].client_id \in SeqToSet(list)}

\* The select of send_participants_update: lines 196-213.
ParticipantsQuery(c) ==
    LET rows == ReportedRows(meeting_code[c], loc[c].participant_list)
    IN  /\ pc[c] = "pquery"
        /\ pc' = [pc EXCEPT ![c] = "psend"]
        /\ loc' = [loc EXCEPT ![c].participants_data =
               [r \in rows |-> ParticipantData(participants[r])]]
        /\ UNCHANGED <<db, args, active_connections, chat_messages, outbox,
                       close_code, broken, clock, budget, calls, frame>>

\* The except of lines 214-216: the client ids alone.
ParticipantsQueryFails(c) ==
    /\ pc[c] = "pquery"
    /\ DbFailure
    /\ pc' = [pc EXCEPT ![c] = "psend"]
    /\ loc' = [loc EXCEPT ![c].participants_data =
           [i \in 1..Len(loc[c].participant_list) |->
               [clientId |-> loc[c].participant_list[i]]]]
    /\ UNCHANGED <<db, args, active_connections, chat_messages, outbox,
                   close_code, broken, clock, calls, frame>>

\* The participants-update of lines 218-222, sent to the new websocket.
ParticipantsSend(c) ==
    /\ pc[c] = "psend"
    /\ IF Dead(c)
       THEN /\ Raise(c)
            /\ UNCHANGED outbox
       ELSE /\ outbox' = [outbox EXCEPT ![c] =
                    Append(@, Msg("participants-update", None,
                                  <<loc[c].participant_list, loc[c].participants_data>>))]
            /\ pc' = [pc EXCEPT ![c] = "loop"]
            /\ loc' = [loc EXCEPT ![c] = NoLoc]
    /\ UNCHANGED <<db, args, active_connections, chat_messages, close_code,
                   broken, clock, budget, calls, frame>>

-----------------------------------------------------------------------------
(* handle_disconnect, ACTIVE -> DISCONNECTED: websocket.py:382-422.         *)

\* select(Participant).where(client_id == client_id): lines 386-389. When
\* several rows match, scalar_one_or_none raises and the except of line 406
\* rolls back: no row is updated.
DisconnectLookup(c) ==
    LET p == ScalarOneOrNone(RowsByClient(client_id[c]))
    IN  /\ pc[c] = "disconnect"
        /\ IF p \in {None, "raise"}
           THEN /\ pc' = [pc EXCEPT ![c] = "unregister"]
                /\ UNCHANGED loc
           ELSE /\ pc' = [pc EXCEPT ![c] = "leave"]
                /\ loc' = [loc EXCEPT ![c].participant = p]
        /\ UNCHANGED <<db, args, active_connections, chat_messages, outbox,
                       close_code, broken, clock, budget, calls, frame>>

\* The row found is marked inactive and the leave event is logged: lines 392-404.
DisconnectCommit(c) ==
    LET p == loc[c].participant
    IN  /\ pc[c] = "leave"
        /\ participants' = [participants EXCEPT ![p].is_active = FALSE,
                                                ![p].left_at = TRUE]
        /\ logs' = AddLog(MeetingLog(participants[p].meeting_id, p, "leave"))
        /\ pc' = [pc EXCEPT ![c] = "unregister"]
        /\ loc' = [loc EXCEPT ![c] = NoLoc]
        /\ UNCHANGED <<args, active_connections, chat_messages, outbox,
                       close_code, broken, clock, budget, calls, frame>>

\* DisconnectDbFails with the failure leaving handle_disconnect: lines 410-420
\* do not run.
DisconnectDbFailsAborts(c) ==
    /\ pc[c] \in {"disconnect", "leave"}
    /\ DbFailure
    /\ pc' = [pc EXCEPT ![c] = "done"]
    /\ loc' = [loc EXCEPT ![c] = NoLoc]
    /\ UNCHANGED <<db, args, active_connections, chat_messages, outbox,
                   close_code, broken, clock, calls, frame>>

\* A statement of lines 386-404 fails: logged and rolled back, lines 406-408.
DisconnectDbFails(c) ==
    /\ pc[c] \in {"disconnect", "leave"}
    /\ DbFailure
    /\ pc' = [pc EXCEPT ![c] = "unregister"]
    /\ loc' = [loc EXCEPT ![c] = NoLoc]
    /\ UNCHANGED <<db, args, active_connections, chat_messages, outbox,
                   close_code, broken, clock, calls, frame>>

\* del d[m]
RemoveKey(d, m) == [x \in DOMAIN d \ {m} |-> d[x]]

\* Unregistered without the removal of the emptied room, lines 413-414.
UnregisteredKeepsRoom(reg, m, k) == [reg EXCEPT ![m] = DictPop(@, k)]

\* Unregistered without the pop of line 411.
UnregisteredKeepsClient(reg, m, k) ==
    IF reg[m] = <<>> THEN RemoveKey(reg, m) ELSE reg

\* Unregistered popping the client id from the entry of every room instead
\* of the entry of meeting_code alone.
UnregisteredEverywhere(reg, m, k) ==
    LET reg1 == [r \in DOMAIN reg |-> DictPop(reg[r], k)]
    IN  IF reg1[m] = <<>> THEN RemoveKey(reg1, m) ELSE reg1

\* Lines 410-414: the client id is popped, and an emptied room with it.
Unregistered(reg, m, k) ==
    LET reg1 == [reg EXCEPT ![m] = DictPop(@, k)]
    IN  IF reg1[m] = <<>> THEN RemoveKey(reg1, m) ELSE reg1

\* Lines 410-420: the registry entry goes, then user-left to those who remain.
Unregister(c) ==
    LET m == meeting_code[c]
        reg == Unregistered(active_connections, m, client_id[c])
    IN  /\ pc[c] = "unregister"
        /\ IF m \in DOMAIN active_connections
           THEN IF m \in DOMAIN reg
                THEN StartBroadcast(c, reg, NoLoc,
                                    Msg("user-left", client_id[c], <<>>), None, "done")
                ELSE /\ active_connections' = reg
                     /\ pc' = [pc EXCEPT ![c] = "done"]
                     /\ UNCHANGED <<outbox, loc, calls>>
           ELSE /\ pc' = [pc EXCEPT ![c] = "done"]
                /\ UNCHANGED <<active_connections, outbox, loc, calls>>
        /\ UNCHANGED <<db, args, chat_messages, close_code, broken, clock, budget, frame>>

-----------------------------------------------------------------------------
(* The message loop, websocket.py:142-181, and its handlers.                *)

\* The peer is gone: receive_text raises WebSocketDisconnect (line 183).
ReceiveDisconnect(c) ==
    /\ pc[c] = "loop"
    /\ broken[c]
    /\ Raise(c)
    /\ UNCHANGED <<db, args, active_connections, chat_messages, outbox,
                   close_code, broken, clock, budget, calls, frame>>

\* A frame json.loads rejects, or one that is no JSON object (message.get
\* raises AttributeError): the except of line 185, then the finally.
ReceiveMalformed(c) ==
    /\ Frame(c, "malformed", None)
    /\ Raise(c)
    /\ UNCHANGED <<db, args, active_connections, chat_messages, outbox,
                   close_code, broken, clock, calls>>

\* A type no branch of lines 150-181 names: the loop goes on.
ReceiveUnknown(c) ==
    /\ Frame(c, "unknown", None)
    /\ UNCHANGED <<db, args, active_connections, chat_messages, pc, loc, outbox,
                   close_code, broken, clock, calls>>

SignalTypes == {"offer", "answer", "ice-candidate"}

\* The data of a signal: opaque to the relay.
SignalData == {"sdp"}

\* handle_webrtc_signal indexing the registry without the check of line 233:
\* an absent target raises KeyError.
ReceiveSignalUnchecked(c, type, target, data) ==
    LET m == meeting_code[c]
        d == IF m \in DOMAIN active_connections THEN active_connections[m] ELSE <<>>
    IN  /\ Frame(c, type, target)
        /\ IF target # None /\ DictHas(d, target) /\ ~Dead(d[DictGet(d, target)].ws)
           THEN /\ outbox' = [outbox EXCEPT ![d[DictGet(d, target)].ws] =
                        Append(@, Msg(type, client_id[c], <<data>>))]
                /\ UNCHANGED <<pc, loc>>
           ELSE /\ Raise(c)
                /\ UNCHANGED outbox
        /\ UNCHANGED <<db, args, active_connections, chat_messages, close_code,
                       broken, clock, calls>>

\* The targets of which not target_client, line 229, is true: None stands for
\* a frame without target, "" is an empty one.
NoTarget == {None, ""}

\* handle_webrtc_signal answering a frame without target with an error message
\* to the sender.
ReceiveSignalReplies(c, type, target, data) ==
    /\ target \in NoTarget
    /\ Frame(c, type, target)
    /\ outbox' = [outbox EXCEPT ![c] = Append(@, Msg("error", None, <<>>))]
    /\ UNCHANGED <<db, args, active_connections, chat_messages, close_code,
                   broken, clock, calls, pc, loc>>

\* handle_webrtc_signal forwarding without the "from" of line 238.
ReceiveSignalAnonymous(c, type, target, data) ==
    LET m == meeting_code[c]
        d == IF m \in DOMAIN active_connections THEN active_connections[m] ELSE <<>>
    IN  /\ Frame(c, type, target)
        /\ IF target \notin NoTarget /\ DictHas(d, target)
           THEN LET target_ws == d[DictGet(d, target)].ws
                IN  IF Dead(target_ws)
                    THEN /\ Raise(c)
                         /\ UNCHANGED outbox
                    ELSE /\ outbox' = [outbox EXCEPT ![target_ws] =
                                 Append(@, Msg(type, None, <<data>>))]
                         /\ UNCHANGED <<pc, loc>>
           ELSE UNCHANGED <<pc, loc, outbox>>
        /\ UNCHANGED <<db, args, active_connections, chat_messages, close_code,
                       broken, clock, calls>>

\* handle_webrtc_signal, lines 225-241. A send that raises is not caught here:
\* it ends the sender's loop.
ReceiveSignal(c, type, target, data) ==
    LET m == meeting_code[c]
        d == IF m \in DOMAIN active_connections THEN active_connections[m] ELSE <<>>
    IN  /\ Frame(c, type, target)
        /\ IF target \notin NoTarget /\ DictHas(d, target)
           THEN LET target_ws == d[DictGet(d, target)].ws
                IN  IF Dead(target_ws)
                    THEN /\ Raise(c)
                         /\ UNCHANGED outbox
                    ELSE /\ outbox' = [outbox EXCEPT ![target_ws] =
                                 Append(@, Msg(type, client_id[c], <<data>>))]
                         /\ UNCHANGED <<pc, loc>>
           ELSE UNCHANGED <<pc, loc, outbox>>
        /\ UNCHANGED <<db, args, active_connections, chat_messages, close_code,
                       broken, clock, calls>>

\* What a chat-message frame may carry: "absent" stands for a missing key.
ChatInputs == {[message |-> "hi", displayName |-> "absent"],
               [message |-> "absent", displayName |-> "Ann"]}

\* chat_data of lines 246-252, with the defaults of message.get.
ChatData(k, in, now) ==
    Msg("chat-message", k,
        <<IF in.message = "absent" THEN "" ELSE in.message,
          IF in.displayName = "absent" THEN "Anonymous" ELSE in.displayName,
          now>>)

\* handle_chat_message up to its first await: the append of lines 254-257.
ReceiveChat(c, in) ==
    LET m == meeting_code[c]
        chat == IF m \in DOMAIN chat_messages THEN chat_messages[m] ELSE <<>>
        chat_data == ChatData(client_id[c], in, clock)
    IN  /\ Frame(c, "chat-message", None)
        /\ chat_messages' = (m :> Append(chat, chat_data)) @@ chat_messages
        /\ clock' = clock + 1
        /\ pc' = [pc EXCEPT ![c] = "chatlog"]
        /\ loc' = [loc EXCEPT ![c].message = chat_data]
        /\ UNCHANGED <<db, args, active_connections, outbox, close_code, broken,
                       calls>>

\* log_chat_message, the selects of lines 274-284; MultipleResultsFound is
\* caught by the except of line 295 and nothing is logged.
LogChatLookup(c) ==
    LET p == ScalarOneOrNone(RowsByClient(client_id[c]))
    IN  /\ pc[c] = "chatlog"
        /\ IF meeting_code[c] \notin DOMAIN meetings \/ p = "raise"
           THEN /\ pc' = [pc EXCEPT ![c] = "chatcast"]
                /\ UNCHANGED loc
           ELSE /\ pc' = [pc EXCEPT ![c] = "chatcommit"]
                /\ loc' = [loc EXCEPT ![c].participant = p]
        /\ UNCHANGED <<db, args, active_connections, chat_messages, outbox,
                       close_code, broken, clock, budget, calls, frame>>

\* log_chat_message, lines 286-294.
LogChatCommit(c) ==
    /\ pc[c] = "chatcommit"
    /\ logs' = AddLog(MeetingLog(meeting_code[c], loc[c].participant, "chat_message"))
    /\ pc' = [pc EXCEPT ![c] = "chatcast"]
    /\ loc' = [loc EXCEPT ![c].participant = None]
    /\ UNCHANGED <<meetings, participants, args, active_connections, chat_messages,
                   outbox, close_code, broken, clock, budget, calls, frame>>

\* A statement of log_chat_message fails: lines 295-297.
LogChatFails(c) ==
    /\ pc[c] \in {"chatlog", "chatcommit"}
    /\ DbFailure
    /\ pc' = [pc EXCEPT ![c] = "chatcast"]
    /\ loc' = [loc EXCEPT ![c].participant = None]
    /\ UNCHANGED <<db, args, active_connections, chat_messages, outbox,
                   close_code, broken, clock, calls, frame>>

\* The broadcast of line 267 with exclude_client=from_client.
BroadcastChatToOthers(c) ==
    /\ pc[c] = "chatcast"
    /\ StartBroadcast(c, active_connections, loc[c], loc[c].message,
                      client_id[c], "loop")
    /\ UNCHANGED <<db, args, chat_messages, close_code, broken, clock, budget, frame>>

\* The broadcast of line 267, to the whole room.
BroadcastChat(c) ==
    /\ pc[c] = "chatcast"
    /\ StartBroadcast(c, active_connections, loc[c], loc[c].message, None, "loop")
    /\ UNCHANGED <<db, args, chat_messages, close_code, broken, clock, budget, frame>>

ScreenShareTypes == {"screen-share-start", "screen-share-stop"}

\* ReceiveScreenShare setting screen_sharing of the sender's row before it
\* relays.
ReceiveScreenSharePersists(c, type) ==
    /\ Frame(c, type, None)
    /\ participants' = [participants EXCEPT ![c].screen_sharing = (type = "screen-share-start")]
    /\ StartBroadcast(c, active_connections, loc[c],
                      Msg(type, client_id[c], <<>>), client_id[c], "loop")
    /\ UNCHANGED <<meetings, logs, args, chat_messages, close_code, broken, clock>>

\* Lines 171-181: relayed to the others, nothing stored.
ReceiveScreenShare(c, type) ==
    /\ Frame(c, type, None)
    /\ StartBroadcast(c, active_connections, loc[c],
                      Msg(type, client_id[c], <<>>), client_id[c], "loop")
    /\ UNCHANGED <<db, args, chat_messages, close_code, broken, clock>>

\* What a join frame may carry for displayName: "absent" stands for a missing key.
JoinNames == {"Ann", "absent"}

\* The participant-name-update of lines 319-323.
NameUpdate(k, name) == Msg("participant-name-update", k, <<name>>)

\* handle_join_message up to its first await: lines 300-304. A frame without
\* displayName does nothing.
ReceiveJoin(c, name) ==
    /\ Frame(c, "join", None)
    /\ IF name = "absent"
       THEN UNCHANGED <<pc, loc>>
       ELSE /\ pc' = [pc EXCEPT ![c] = "joinname"]
            /\ loc' = [loc EXCEPT ![c].display_name = name,
                                  ![c].message = NameUpdate(client_id[c], name)]
    /\ UNCHANGED <<db, args, active_connections, chat_messages, outbox,
                   close_code, broken, clock, calls>>

\* JoinLookup returning from the handler when no row is found: the broadcast
\* of lines 319-323 inside the if of line 310.
JoinLookupReturns(c) ==
    LET p == ScalarOneOrNone(RowsByClient(client_id[c]))
    IN  /\ pc[c] = "joinname"
        /\ IF p = None
           THEN /\ pc' = [pc EXCEPT ![c] = "loop"]
                /\ loc' = [loc EXCEPT ![c] = NoLoc]
           ELSE IF p = "raise"
                THEN /\ pc' = [pc EXCEPT ![c] = "namecast"]
                     /\ UNCHANGED loc
                ELSE /\ pc' = [pc EXCEPT ![c] = "joincommit"]
                     /\ loc' = [loc EXCEPT ![c].participant = p]
        /\ UNCHANGED <<db, args, active_connections, chat_messages, outbox,
                       close_code, broken, clock, budget, calls, frame>>

\* The select of lines 306-310; MultipleResultsFound is caught by the except
\* of line 314 and no row is updated.
JoinLookup(c) ==
    LET p == ScalarOneOrNone(RowsByClient(client_id[c]))
    IN  /\ pc[c] = "joinname"
        /\ IF p \in {None, "raise"}
           THEN /\ pc' = [pc EXCEPT ![c] = "namecast"]
                /\ UNCHANGED loc
           ELSE /\ pc' = [pc EXCEPT ![c] = "joincommit"]
                /\ loc' = [loc EXCEPT ![c].participant = p]
        /\ UNCHANGED <<db, args, active_connections, chat_messages, outbox,
                       close_code, broken, clock, budget, calls, frame>>

\* participant.display_name = display_name; db.commit(): lines 311-312.
JoinCommit(c) ==
    LET p == loc[c].participant
    IN  /\ pc[c] = "joincommit"
        /\ participants' = [participants EXCEPT ![p].display_name = loc[c].display_name]
        /\ pc' = [pc EXCEPT ![c] = "namecast"]
        /\ loc' = [loc EXCEPT ![c].participant = None]
        /\ UNCHANGED <<meetings, logs, args, active_connections, chat_messages,
                       outbox, close_code, broken, clock, budget, calls, frame>>

\* A statement of lines 306-312 fails: logged and rolled back, lines 314-316.
JoinDbFails(c) ==
    /\ pc[c] \in {"joinname", "joincommit"}
    /\ DbFailure
    /\ pc' = [pc EXCEPT ![c] = "namecast"]
    /\ loc' = [loc EXCEPT ![c].participant = None]
    /\ UNCHANGED <<db, args, active_connections, chat_messages, outbox,
                   close_code, broken, clock, calls, frame>>

\* The broadcast of lines 319-323 without exclude_client.
BroadcastNameToAll(c) ==
    /\ pc[c] = "namecast"
    /\ StartBroadcast(c, active_connections, loc[c], loc[c].message, None, "loop")
    /\ UNCHANGED <<db, args, chat_messages, close_code, broken, clock, budget, frame>>

\* The broadcast of lines 319-323, to the others.
BroadcastName(c) ==
    /\ pc[c] = "namecast"
    /\ StartBroadcast(c, active_connections, loc[c], loc[c].message,
                      client_id[c], "loop")
    /\ UNCHANGED <<db, args, chat_messages, close_code, broken, clock, budget, frame>>

MediaTypes == {"audio", "video"}

\* What a toggle frame may carry for enabled: "absent" stands for a missing key.
ToggleInputs == {"false", "absent"}

\* message.get("enabled", True), line 328.
Enabled(in) == in # "false"

\* The type of the message of lines 355-360.
ToggleType(media) == IF media = "audio" THEN "audio-toggle" ELSE "video-toggle"

\* The event_type of line 346.
ToggleEvent(type) == IF type = "audio-toggle" THEN "audio_toggle" ELSE "video_toggle"

\* The message of lines 356-360.
ToggleMessage(k, media, enabled) == Msg(ToggleType(media), k, <<enabled>>)

\* handle_media_toggle up to its first await: lines 326-330.
ReceiveToggle(c, media, in) ==
    /\ Frame(c, ToggleType(media), None)
    /\ pc' = [pc EXCEPT ![c] = "toggle"]
    /\ loc' = [loc EXCEPT ![c].enabled = Enabled(in),
                          ![c].message = ToggleMessage(client_id[c], media, Enabled(in))]
    /\ UNCHANGED <<db, args, active_connections, chat_messages, outbox,
                   close_code, broken, clock, calls>>

\* The select of lines 332-336; MultipleResultsFound is caught by the except
\* of line 351 and no row is updated.
ToggleLookup(c) ==
    LET p == ScalarOneOrNone(RowsByClient(client_id[c]))
    IN  /\ pc[c] = "toggle"
        /\ IF p \in {None, "raise"}
           THEN /\ pc' = [pc EXCEPT ![c] = "togglecast"]
                /\ UNCHANGED loc
           ELSE /\ pc' = [pc EXCEPT ![c] = "togglecommit"]
                /\ loc' = [loc EXCEPT ![c].participant = p]
        /\ UNCHANGED <<db, args, active_connections, chat_messages, outbox,
                       close_code, broken, clock, budget, calls, frame>>

\* ToggleCommit inverting the stored flag instead of assigning the value of
\* the message to it.
ToggleCommitFlips(c) ==
    LET p == loc[c].participant
    IN  /\ pc[c] = "togglecommit"
        /\ participants' =
               IF loc[c].message.type = "audio-toggle"
               THEN [participants EXCEPT ![p].audio_enabled = ~@]
               ELSE [participants EXCEPT ![p].video_enabled = ~@]
        /\ pc' = [pc EXCEPT ![c] = "togglelog"]
        /\ UNCHANGED <<meetings, logs, args, active_connections, chat_messages,
                       loc, outbox, close_code, broken, clock, budget, calls, frame>>

\* The flag of the media type is set and committed: lines 337-341.
ToggleCommit(c) ==
    LET p == loc[c].participant
    IN  /\ pc[c] = "togglecommit"
        /\ participants' =
               IF loc[c].message.type = "audio-toggle"
               THEN [participants EXCEPT ![p].audio_enabled = loc[c].enabled]
               ELSE [participants EXCEPT ![p].video_enabled = loc[c].enabled]
        /\ pc' = [pc EXCEPT ![c] = "togglelog"]
        /\ UNCHANGED <<meetings, logs, args, active_connections, chat_messages,
                       loc, outbox, close_code, broken, clock, budget, calls, frame>>

\* The audit event and the second commit: lines 343-350. The session keeps the
\* attributes of the row loaded after the first commit, as the session factory
\* of tests/conftest.py does.
ToggleLog(c) ==
    LET p == loc[c].participant
    IN  /\ pc[c] = "togglelog"
        /\ logs' = AddLog(MeetingLog(participants[p].meeting_id, p,
                                     ToggleEvent(loc[c].message.type)))
        /\ pc' = [pc EXCEPT ![c] = "togglecast"]
        /\ loc' = [loc EXCEPT ![c].participant = None]
        /\ UNCHANGED <<meetings, participants, args, active_connections,
                       chat_messages, outbox, close_code, broken, clock, budget,
                       calls, frame>>

\* ToggleDbFails without the except of lines 351-353: the failure ends the
\* sender's message loop.
ToggleDbFailsRaises(c) ==
    /\ pc[c] \in {"toggle", "togglecommit", "togglelog"}
    /\ DbFailure
    /\ Raise(c)
    /\ UNCHANGED <<db, args, active_connections, chat_messages, outbox,
                   close_code, broken, clock, calls, frame>>

\* A statement of lines 332-350 fails: logged and rolled back, lines 351-353.
\* At "togglelog" the flag has been committed already.
ToggleDbFails(c) ==
    /\ pc[c] \in {"toggle", "togglecommit", "togglelog"}
    /\ DbFailure
    /\ pc' = [pc EXCEPT ![c] = "togglecast"]
    /\ loc' = [loc EXCEPT ![c].participant = None]
    /\ UNCHANGED <<db, args, active_connections, chat_messages, outbox,
                   close_code, broken, clock, calls, frame>>

\* The broadcast of lines 355-360, to the whole room.
BroadcastToggle(c) ==
    /\ pc[c] = "togglecast"
    /\ StartBroadcast(c, active_connections, loc[c], loc[c].message, None, "loop")
    /\ UNCHANGED <<db, args, chat_messages, close_code, broken, clock, budget, frame>>

\* A Participant row is deleted from outside the relay, which deletes none
\* itself: the rows of a meeting are declared to go with it (models.py:35, 46),
\* and the handlers provide for a lookup that finds no row.
ParticipantDeleted(r) ==
    /\ r \in DOMAIN participants
    /\ budget.purges > 0
    /\ budget' = [budget EXCEPT !.purges = @ - 1]
    /\ participants' = [x \in DOMAIN participants \ {r} |-> participants[x]]
    /\ UNCHANGED <<meetings, logs, meeting_code, client_id, http,
                   active_connections, chat_messages, pc, loc, outbox,
                   close_code, broken, clock, calls, frame>>

\* The peer of a socket goes away.
Break(c) ==
    /\ pc[c] \notin {"idle", "closed", "done"}
    /\ ~broken[c]
    /\ budget.breaks > 0
    /\ budget' = [budget EXCEPT !.breaks = @ - 1]
    /\ broken' = [broken EXCEPT ![c] = TRUE]
    /\ UNCHANGED <<db, args, active_connections, chat_messages, pc, loc, outbox,
                   close_code, clock, calls, frame>>

-----------------------------------------------------------------------------
(* The REST router, api/meetings.py: one coroutine per request, suspended   *)
(* at its database statements.                                              *)

RestMaxRequests == 1

\* The requests the router may serve in a run.
Req == 1..RestMaxRequests

\* No response yet.
NoResponse == [status |-> 0, detail |-> None, code |-> None, is_active |-> FALSE,
               max_participants |-> 0, participant_count |-> 0, rows |-> {}]

\* The body of a request that carries none.
NoBody == [given |-> FALSE, value |-> 0]

\* A request that has not arrived.
NoRequest == [pc |-> "new", op |-> None, body |-> NoBody, code |-> None,
              response |-> NoResponse]

\* HTTPException(status_code, detail), and the replies of the framework to a
\* body that fails validation (422) and to an exception no handler catches (500).
ErrorResponse(status, detail) == [NoResponse EXCEPT !.status = status, !.detail = detail]

\* What a create request may carry for max_participants: a body without the
\* key, or one of the integers on either side of the two ends of the range.
MaxParticipantsInputs ==
    {NoBody}
        \cup {[given |-> TRUE, value |-> v] : v \in {1, 2, 50, 51}}

\* MeetingCreate.max_participants, schemas.py:8: the default of the field.
MaxParticipants(in) == IF in.given THEN in.value ELSE 10

\* MeetingCreate taking any integer.
ValidAlways(in) == TRUE

\* MeetingCreate.max_participants, schemas.py:8: ge=2, le=50; the default is
\* not validated.
ValidMeetingCreate(in) == ~in.given \/ (in.value >= 2 /\ in.value <= 50)

\* The row Meeting(...) of lines 26-31 inserts, with the defaults of models.py.
NewMeeting(max) == [max_participants |-> max, is_active |-> TRUE]

\* MeetingResponse of lines 39-47 and 69-77.
MeetingResponse(code, meeting, count) ==
    [NoResponse EXCEPT !.status = 200, !.code = code,
                       !.is_active = meeting.is_active,
                       !.max_participants = meeting.max_participants,
                       !.participant_count = count]

\* ParticipantResponse, schemas.py:29-41: the columns of a row that are returned.
ParticipantResponse(r) ==
    [id |-> r, client_id |-> participants[r].client_id,
     display_name |-> participants[r].display_name,
     is_active |-> participants[r].is_active, is_host |-> participants[r].is_host,
     audio_enabled |-> participants[r].audio_enabled,
     video_enabled |-> participants[r].video_enabled,
     screen_sharing |-> participants[r].screen_sharing]

\* select(Participant).where(meeting_id == m).where(is_active == True)
ActiveRows(m) ==
    {r \in DOMAIN participants :
        participants[r].meeting_id = m /\ participants[r].is_active}

\* The insert without the unique index: the row goes in whatever its code.
CodeUnchecked(code) == TRUE

\* The insert of a Meeting row whose code no row has: the unique index on
\* Meeting.code, models.py:24, lets it through.
CodeIsFree(code) == code \notin DOMAIN meetings

\* The endpoint returns, or raises: the request has its response.
Respond(q, op, in, code, response) ==
    http' = [http EXCEPT ![q] = [pc |-> "done", op |-> op, body |-> in,
                                 code |-> code, response |-> response]]

\* The endpoint is suspended at the await of its next statement.
Suspend(q, op, in, code, place) ==
    http' = [http EXCEPT ![q] = [pc |-> place, op |-> op, body |-> in,
                                 code |-> code, response |-> NoResponse]]

\* create_meeting, lines 17-34: the body is validated, and db.commit() inserts
\* the row with the code generate_meeting_code() drew, any code there is. An
\* insert the unique index refuses raises IntegrityError, which nothing catches.
CreateMeeting(q, in, code) ==
    /\ http[q].pc = "new"
    /\ IF ~ValidMeetingCreate(in)
       THEN /\ Respond(q, "create", in, None, ErrorResponse(422, "validation"))
            /\ UNCHANGED meetings
       ELSE IF CodeIsFree(code)
            THEN /\ meetings' = (code :> NewMeeting(MaxParticipants(in))) @@ meetings
                 /\ Suspend(q, "create", in, code, "refresh")
            ELSE /\ Respond(q, "create", in, None, ErrorResponse(500, "IntegrityError"))
                 /\ UNCHANGED meetings
    /\ UNCHANGED relay

\* create_meeting, lines 35-47: the row is read back and returned.
CreateRefresh(q) ==
    /\ http[q].pc = "refresh"
    /\ Respond(q, "create", http[q].body, http[q].code,
               MeetingResponse(http[q].code, meetings[http[q].code], 0))
    /\ UNCHANGED <<meetings, relay>>

\* FindByCode without the check of lines 58-59 and 88-89.
FindByCodeUnchecked(q, op, code, place) ==
    /\ http[q].pc = "new"
    /\ Suspend(q, op, NoBody, code, place)
    /\ UNCHANGED <<meetings, relay>>

\* select(Meeting).where(code == meeting_code) of get_meeting and of
\* get_participants, lines 53-59 and 83-89.
FindByCode(q, op, code, place) ==
    /\ http[q].pc = "new"
    /\ IF code \in DOMAIN meetings
       THEN Suspend(q, op, NoBody, code, place)
       ELSE Respond(q, op, NoBody, code, ErrorResponse(404, "Meeting not found"))
    /\ UNCHANGED <<meetings, relay>>

\* get_meeting, lines 51-59.
GetMeeting(q, code) == FindByCode(q, "get", code, "count")

\* get_meeting, lines 62-77: the count of the active rows, and the response.
GetMeetingCount(q) ==
    /\ http[q].pc = "count"
    /\ Respond(q, "get", NoBody, http[q].code,
               MeetingResponse(http[q].code, meetings[http[q].code],
                               ActiveCount(http[q].code)))
    /\ UNCHANGED <<meetings, relay>>

\* get_participants, lines 81-89.
GetParticipants(q, code) == FindByCode(q, "list", code, "list")

\* get_participants, lines 91-98: the active rows of the meeting.
ListParticipants(q) ==
    /\ http[q].pc = "list"
    /\ Respond(q, "list", NoBody, http[q].code,
               [NoResponse EXCEPT !.status = 200, !.code = http[q].code,
                    !.rows = {ParticipantResponse(r) : r \in ActiveRows(http[q].code)}])
    /\ UNCHANGED <<meetings, relay>>

-----------------------------------------------------------------------------
(* The runs.                                                                *)

NoFrame == [ws |-> None, type |-> "none", target |-> None]

\* How many inbound frames each socket may still receive in the run.
Frames(n1, n2, n3) == [w1 |-> n1, w2 |-> n2, w3 |-> n3]

EmptyTable == [x \in {} |-> None]

\* The Meeting rows the REST collaborator has created; the relay only reads
\* them. Room r1 has the default max_participants of schemas.py:8 and room r2
\* the least value it admits.
MeetingRows ==
    [m \in {"r1", "r2"} |->
        [max_participants |-> IF m = "r1" THEN 10 ELSE 2, is_active |-> TRUE]]

\* The state of the process before any socket is accepted, for the sockets'
\* URL arguments mc and cid and the bounds b of the run.
Start(mc, cid, b) ==
    /\ meetings = MeetingRows
    /\ participants = EmptyTable
    /\ logs = EmptyBag
    /\ active_connections = EmptyTable
    /\ chat_messages = EmptyTable
    /\ pc = [c \in Conn |-> "idle"]
    /\ meeting_code = mc
    /\ client_id = cid
    /\ loc = [c \in Conn |-> NoLoc]
    /\ outbox = [c \in Conn |-> <<>>]
    /\ close_code = [c \in Conn |-> 0]
    /\ broken = [c \in Conn |-> FALSE]
    /\ clock = 1
    /\ budget = b
    /\ calls = [c \in Conn |-> NoCall]
    /\ frame = NoFrame
    /\ http = [q \in Req |-> NoRequest]

\* The steps of CONNECTING -> ACTIVE.
Joining(c) ==
    \/ FindMeeting(c)
    \/ CountActive(c)
    \/ CommitParticipant(c)
    \/ Register(c)
    \/ LookupName(c)
    \/ BroadcastJoined(c)
    \/ BroadcastReturn(c)
    \/ ParticipantsQuery(c)
    \/ ParticipantsSend(c)

\* A peer going away, and the steps of ACTIVE -> DISCONNECTED.
Leaving(c) ==
    \/ ReceiveDisconnect(c)
    \/ DisconnectLookup(c)
    \/ DisconnectCommit(c)
    \/ Unregister(c)
    \/ Break(c)

\* The persistence calls of setup, join and disconnect that may fail.
LifecycleFails(c) ==
    \/ SetupFails(c)
    \/ LookupNameFails(c)
    \/ ParticipantsQueryFails(c)
    \/ DisconnectDbFails(c)

JoinMaxBreaks == 2
JoinMaxDbFail == 1

\* Joins and disconnects: two sockets for one room, under two client ids or
\* under the same one, and a socket for a code without a meeting.
InitJoin ==
    \E k2 \in Clients :
        Start([w1 |-> "r1", w2 |-> "r1", w3 |-> "zz"],
              [w1 |-> "A", w2 |-> k2, w3 |-> "A"],
              [msgs |-> Frames(0, 0, 0), dbfail |-> JoinMaxDbFail,
               breaks |-> JoinMaxBreaks])

NextJoin == \E c \in Conn : Joining(c) \/ Leaving(c) \/ LifecycleFails(c)

SpecJoin == InitJoin /\ [][NextJoin]_vars

\* The state with w1 then w2 joined to room r1 as A and B, one after the other
\* with nothing failing, and both waiting in the message loop: the state
\* SpecJoin reaches by w1's join followed by w2's. The third socket has not
\* connected; mc3 and cid3 are its URL arguments, b the bounds of the run.
TwoJoined(mc3, cid3, b) ==
    LET dataA == [clientId |-> "A", displayName |-> None, audioEnabled |-> TRUE,
                  videoEnabled |-> TRUE, screenSharing |-> FALSE]
        dataB == [dataA EXCEPT !.clientId = "B"]
        items == <<[client |-> "A", ws |-> "w1"], [client |-> "B", ws |-> "w2"]>>
        joined(k) == Msg("user-joined", k, <<None>>)
    IN  /\ meetings = MeetingRows
        /\ meeting_code = [w1 |-> "r1", w2 |-> "r1", w3 |-> mc3]
        /\ client_id = [w1 |-> "A", w2 |-> "B", w3 |-> cid3]
        /\ participants = [c \in {"w1", "w2"} |-> NewParticipant(c, c = "w1")]
        /\ logs = SetToBag({MeetingLog("r1", None, "join")})
                      (+) SetToBag({MeetingLog("r1", None, "join")})
        /\ active_connections = [m \in {"r1"} |-> items]
        /\ chat_messages = [m \in {"r1"} |-> <<>>]
        /\ pc = [w1 |-> "loop", w2 |-> "loop", w3 |-> "idle"]
        /\ loc = [c \in Conn |-> NoLoc]
        /\ outbox = [w1 |-> <<Msg("chat-history", None, <<>>),
                              Msg("participants-update", None,
                                  <<(<<"A">>), [r \in {"w1"} |-> dataA]>>),
                              joined("B")>>,
                     w2 |-> <<Msg("chat-history", None, <<>>),
                              Msg("participants-update", None,
                                  <<(<<"A", "B">>), [w1 |-> dataA, w2 |-> dataB]>>)>>,
                     w3 |-> <<>>]
        /\ close_code = [c \in Conn |-> 0]
        /\ broken = [c \in Conn |-> FALSE]
        /\ clock = 1
        /\ budget = b
        /\ calls = [w1 |-> [active |-> TRUE, room |-> "r1", msg |-> joined("A"),
                            exclude |-> "A", snapshot |-> SubSeq(items, 1, 1),
                            attempts |-> <<>>, failed |-> {}, returned |-> TRUE],
                    w2 |-> [active |-> TRUE, room |-> "r1", msg |-> joined("B"),
                            exclude |-> "B", snapshot |-> items,
                            attempts |-> <<"w1">>, failed |-> {}, returned |-> TRUE],
                    w3 |-> NoCall]
        /\ frame = NoFrame
        /\ http = [q \in Req |-> NoRequest]

\* A chat-message frame with a text and no displayName.
Hello == [message |-> "hi", displayName |-> "absent"]

\* Broadcasts to the room: a chat message to all, screen sharing to the others.
RoomFrames(c) ==
    \/ ReceiveChat(c, Hello)
    \/ LogChatLookup(c)
    \/ LogChatCommit(c)
    \/ BroadcastChat(c)
    \/ ReceiveScreenShare(c, "screen-share-start")
    \/ BroadcastStep(c)

RoomMaxMsgs == 1
RoomMaxBreaks == 1

\* Two clients in the room and a third socket about to join it, as a client
\* id already in the room or as a new one; the frames of the run come from w1.
InitRoom ==
    \E k3 \in {"A", "C"} :
        TwoJoined("r1", k3, [msgs |-> Frames(RoomMaxMsgs, 0, 0), dbfail |-> 0,
                             breaks |-> RoomMaxBreaks])

NextRoom == \E c \in Conn : Joining(c) \/ Leaving(c) \/ RoomFrames(c)

SpecRoom == InitRoom /\ [][NextRoom]_vars

\* The state with w1 joined to room r1 as A, alone, and waiting in the message
\* loop, after w3 was refused for a code without a meeting: the state SpecJoin
\* reaches by w3's attempt followed by w1's join. The second socket has not
\* connected; cid2 is its client id, b the bounds of the run.
OneJoined(cid2, b) ==
    LET dataA == [clientId |-> "A", displayName |-> None, audioEnabled |-> TRUE,
                  videoEnabled |-> TRUE, screenSharing |-> FALSE]
        items == <<[client |-> "A", ws |-> "w1"]>>
    IN  /\ meetings = MeetingRows
        /\ meeting_code = [w1 |-> "r1", w2 |-> "r1", w3 |-> "zz"]
        /\ client_id = [w1 |-> "A", w2 |-> cid2, w3 |-> "A"]
        /\ participants = [c \in {"w1"} |-> NewParticipant(c, TRUE)]
        /\ logs = SetToBag({MeetingLog("r1", None, "join")})
        /\ active_connections = [m \in {"r1"} |-> items]
        /\ chat_messages = [m \in {"r1"} |-> <<>>]
        /\ pc = [w1 |-> "loop", w2 |-> "idle", w3 |-> "closed"]
        /\ loc = [c \in Conn |-> NoLoc]
        /\ outbox = [w1 |-> <<Msg("chat-history", None, <<>>),
                              Msg("participants-update", None,
                                  <<(<<"A">>), [r \in {"w1"} |-> dataA]>>)>>,
                     w2 |-> <<>>,
                     w3 |-> <<>>]
        /\ close_code = [w1 |-> 0, w2 |-> 0, w3 |-> 1008]
        /\ broken = [c \in Conn |-> FALSE]
        /\ clock = 1
        /\ budget = b
        /\ calls = [w1 |-> [active |-> TRUE, room |-> "r1",
                            msg |-> Msg("user-joined", "A", <<None>>),
                            exclude |-> "A", snapshot |-> items,
                            attempts |-> <<>>, failed |-> {}, returned |-> TRUE],
                    w2 |-> NoCall,
                    w3 |-> NoCall]
        /\ frame = NoFrame
        /\ http = [q \in Req |-> NoRequest]

\* The chat messages of a room.
ChatFrames(c) ==
    \/ ReceiveChat(c, Hello)
    \/ LogChatLookup(c)
    \/ LogChatCommit(c)
    \/ BroadcastChat(c)

LastMaxMsgs == 2
LastMaxBreaks == 2

\* One client in the room, who chats, and a second socket about to join it
\* under the same client id or another: either may be the last to leave.
InitLast ==
    \E k2 \in {"A", "B"} :
        OneJoined(k2, [msgs |-> Frames(LastMaxMsgs, 0, 0), dbfail |-> 0,
                       breaks |-> LastMaxBreaks])

NextLast == \E c \in Conn : Joining(c) \/ Leaving(c) \/ ChatFrames(c) \/ BroadcastStep(c)

SpecLast == InitLast /\ [][NextLast]_vars

ChatMaxMsgs == 2

\* Two clients in the room, both chatting, and a third joining: no socket
\* fails.
InitChat ==
    TwoJoined("r1", "C", [msgs |-> Frames(ChatMaxMsgs, 1, 0), dbfail |-> 0,
                          breaks |-> 0])

NextChat == \E c \in Conn : Joining(c) \/ ChatFrames(c) \/ BroadcastStep(c)

SpecChat == InitChat /\ [][NextChat]_vars

\* The frames that are forwarded to one peer or dropped.
SignalFrames(c) ==
    \/ \E type \in SignalTypes, target \in Clients \cup NoTarget, data \in SignalData :
           ReceiveSignal(c, type, target, data)
    \/ ReceiveUnknown(c)
    \/ ReceiveMalformed(c)

SignalMaxMsgs == 2
SignalMaxBreaks == 1

\* One client in the room, signalling, and a second socket about to join it:
\* as B, a target that is registered only while that socket is, or as A, whose
\* departure takes the room's registry entry with it.
InitSignal ==
    \E k2 \in {"A", "B"} :
        OneJoined(k2, [msgs |-> Frames(SignalMaxMsgs, 0, 0), dbfail |-> 0,
                       breaks |-> SignalMaxBreaks])

NextSignal == \E c \in Conn : Joining(c) \/ Leaving(c) \/ SignalFrames(c)

SpecSignal == InitSignal /\ [][NextSignal]_vars

\* The steps of handle_disconnect for a room of at most two sockets.
Cleanup(c) ==
    \/ DisconnectLookup(c)
    \/ DisconnectCommit(c)
    \/ Unregister(c)

CleanupMaxMsgs == 1
CleanupMaxBreaks == 1

\* One client in the room and a second socket about to join it, as in
\* InitSignal: a loop may end by a closed socket, by a failed send while
\* joining, by a malformed frame or by a signal to a dead websocket.
InitCleanup ==
    \E k2 \in {"A", "B"} :
        OneJoined(k2, [msgs |-> Frames(CleanupMaxMsgs, 0, 0), dbfail |-> 0,
                       breaks |-> CleanupMaxBreaks])

\* The steps of SpecSignal with the scheduling of asyncio: a task whose await
\* has completed is resumed, and the statements of handle_disconnect complete.
SpecCleanup ==
    InitCleanup /\ [][NextSignal]_vars /\ \A c \in Conn : WF_vars(Cleanup(c))

\* The frames that update the sender's Participant row and are broadcast.
MediaFrames(c) ==
    \/ \E name \in JoinNames : ReceiveJoin(c, name)
    \/ JoinLookup(c)
    \/ JoinCommit(c)
    \/ BroadcastName(c)
    \/ \E media \in MediaTypes, in \in ToggleInputs : ReceiveToggle(c, media, in)
    \/ ToggleLookup(c)
    \/ ToggleCommit(c)
    \/ ToggleLog(c)
    \/ BroadcastToggle(c)

\* The persistence calls of the message handlers that may fail.
HandlerFails(c) ==
    \/ LogChatFails(c)
    \/ JoinDbFails(c)
    \/ ToggleDbFails(c)

MediaMaxMsgs == 1
MediaMaxDbFail == 1

\* Two clients in the room, the host sending join, toggle and chat frames, and
\* a third socket about to join under the host's client id or a new one.
InitMedia ==
    \E k3 \in {"A", "C"} :
        TwoJoined("r1", k3, [msgs |-> Frames(MediaMaxMsgs, 0, 0),
                             dbfail |-> MediaMaxDbFail, breaks |-> 0])

NextMedia ==
    \E c \in Conn :
        Joining(c) \/ MediaFrames(c) \/ ChatFrames(c) \/ HandlerFails(c) \/ BroadcastStep(c)

SpecMedia == InitMedia /\ [][NextMedia]_vars

\* The requests of the REST router.
Rest(q) ==
    \/ \E in \in MaxParticipantsInputs, code \in Codes : CreateMeeting(q, in, code)
    \/ CreateRefresh(q)
    \/ \E code \in Codes : GetMeeting(q, code)
    \/ GetMeetingCount(q)
    \/ \E code \in Codes : GetParticipants(q, code)
    \/ ListParticipants(q)

RestMaxBreaks == 1

\* One client in the room and a second socket about to join it, as in
\* InitSignal, while the REST router serves its requests: meetings are created,
\* looked up and their participants listed between the steps of the joins and
\* the disconnects.
InitRest ==
    \E k2 \in {"A", "B"} :
        OneJoined(k2, [msgs |-> Frames(0, 0, 0), dbfail |-> 0,
                       breaks |-> RestMaxBreaks])

NextRest == (\E c \in Conn : Joining(c) \/ Leaving(c)) \/ (\E q \in Req : Rest(q))

SpecRest == InitRest /\ [][NextRest]_vars

\* The join frames of a room.
JoinFrames(c) ==
    \/ \E name \in JoinNames : ReceiveJoin(c, name)
    \/ JoinLookup(c)
    \/ JoinCommit(c)
    \/ BroadcastName(c)
    \/ BroadcastStep(c)

PurgeMaxMsgs == 1
PurgeMaxRows == 1

\* Two clients in the room, the host announcing its display name, and a third
\* socket about to join under the host's client id or a new one, while a
\* Participant row is deleted from outside.
InitPurge ==
    \E k3 \in {"A", "C"} :
        TwoJoined("r1", k3, [msgs |-> Frames(PurgeMaxMsgs, 0, 0), dbfail |-> 0,
                             breaks |-> 0, purges |-> PurgeMaxRows])

NextPurge ==
    \/ \E c \in Conn : Joining(c) \/ JoinFrames(c)
    \/ \E r \in Conn : ParticipantDeleted(r)

SpecPurge == InitPurge /\ [][NextPurge]_vars

\* The frames the relay passes on without storing anything.
RelayFrames(c) ==
    \/ \E type \in SignalTypes, target \in Clients \cup NoTarget, data \in SignalData :
           ReceiveSignal(c, type, target, data)
    \/ \E type \in ScreenShareTypes : ReceiveScreenShare(c, type)

FramesMaxMsgs == 1

\* Two clients in the room, the host sending frames of every type the loop
\* names, and a third socket about to join under the host's client id or a
\* new one: no socket and no persistence call fails.
InitFrames ==
    \E k3 \in {"A", "C"} :
        TwoJoined("r1", k3, [msgs |-> Frames(FramesMaxMsgs, 0, 0), dbfail |-> 0,
                             breaks |-> 0])

NextFrames ==
    \E c \in Conn :
        Joining(c) \/ RelayFrames(c) \/ MediaFrames(c) \/ ChatFrames(c) \/ BroadcastStep(c)

SpecFrames == InitFrames /\ [][NextFrames]_vars

\* Two frames in succession from the host of a room of two, of every type,
\* while a third socket joins as C; no send and no persistence call fails.
TwiceMaxMsgs == 2

InitTwice ==
    TwoJoined("r1", "C", [msgs |-> Frames(TwiceMaxMsgs, 0, 0), dbfail |-> 0,
                          breaks |-> 0])

NextTwice ==
    \E c \in Conn :
        Joining(c) \/ RelayFrames(c) \/ MediaFrames(c) \/ ChatFrames(c) \/ BroadcastStep(c)

SpecTwice == InitTwice /\ [][NextTwice]_vars

\* The setup of a connection that is the first of its room: its user-joined
\* broadcast finds no recipient and returns at once (lines 369-373), and
\* send_participants_update follows in the same step.
JoiningAlone(c) ==
    \/ FindMeeting(c)
    \/ CountActive(c)
    \/ CommitParticipant(c)
    \/ Register(c)
    \/ LookupName(c)
    \/ BroadcastJoined(c)
    \/ ParticipantsQuery(c)
    \/ ParticipantsSend(c)

RoomsMaxMsgs == 1
RoomsMaxBreaks == 1

\* Two rooms: clients A and B in room r1, and a socket joining room r2 under
\* A's client id; the host of r1 or the client of r2 sends a frame of any
\* type, and a socket may break and leave.
InitRooms ==
    \E sender \in {"w1", "w3"} :
        TwoJoined("r2", "A",
                  [msgs |-> [c \in Conn |-> IF c = sender THEN RoomsMaxMsgs ELSE 0],
                   dbfail |-> 0, breaks |-> RoomsMaxBreaks])

NextRooms ==
    \E c \in Conn :
        \/ JoiningAlone(c)
        \/ Leaving(c)
        \/ RelayFrames(c)
        \/ MediaFrames(c)
        \/ ChatFrames(c)
        \/ BroadcastStep(c)

SpecRooms == InitRooms /\ [][NextRooms]_vars

\* Three clients connect to room r2, whose max_participants is 2; no send and
\* no persistence call fails and nobody leaves.
InitCapacity ==
    Start([c \in Conn |-> "r2"], [w1 |-> "A", w2 |-> "B", w3 |-> "C"],
          [msgs |-> Frames(0, 0, 0), dbfail |-> 0, breaks |-> 0])

NextCapacity == \E c \in Conn : Joining(c) \/ BroadcastStep(c)

SpecCapacity == InitCapacity /\ [][NextCapacity]_vars

-----------------------------------------------------------------------------
(* The claims.                                                              *)

\* The rows of meeting m that are active and marked host.
ActiveHosts(m) ==
    {r \in DOMAIN participants :
        /\ participants[r].meeting_id = m
        /\ participants[r].is_active
        /\ participants[r].is_host}

\* The sockets registered in room m.
Registered(m) ==
    IF m \in DOMAIN active_connections
    THEN {active_connections[m][i].ws : i \in 1..Len(active_connections[m])}
    ELSE {}

\* C1: in every reachable state every room has at most one active Participant
\* row with is_host set, also when two sockets join an empty room concurrently.
C1_AtMostOneActiveHost ==
    \A m \in DOMAIN meetings : Cardinality(ActiveHosts(m)) <= 1

C8_SetupFailureLeavesNothing ==
    \A c \in Conn :
        close_code[c] = 1011 =>
            /\ pc[c] = "closed"
            /\ c \notin Registered(meeting_code[c])
            /\ calls[c] = NoCall
            /\ outbox[c] = <<>>
            /\ ~(c \in DOMAIN participants /\ participants[c].is_active)


\* s is an initial part of t.
IsPrefix(s, t) == Len(s) <= Len(t) /\ SubSeq(t, 1, Len(s)) = s

\* The same message: the bodies are compared only for messages of one type.
SameMsg(a, b) == a.type = b.type /\ a.cid = b.cid /\ a.body = b.body

\* The chat buffer of room m, empty when the room has none.
Buffer(m) == IF m \in DOMAIN chat_messages THEN chat_messages[m] ELSE <<>>

\* The items of room m in the registry, none when the room has no entry.
Items(m) == IF m \in DOMAIN active_connections THEN active_connections[m] ELSE <<>>

\* The websockets registered for room m in the registry reg.
RegisteredIn(reg, m) ==
    IF m \in DOMAIN reg THEN {reg[m][i].ws : i \in 1..Len(reg[m])} ELSE {}

\* How many times the call has sent, or tried to send, to ws.
Attempts(call, ws) == Cardinality({i \in 1..Len(call.attempts) : call.attempts[i] = ws})

\* The task of c takes this step out of the given place.
Leaves(c, place) == pc[c] = place /\ pc'[c] # place

\* C2: a broadcast_to_meeting call sends its message exactly once to the
\* websocket of every client that was registered in the room when it was
\* called, the excluded client apart, never to the excluded client and never
\* to a websocket that was not registered then, whatever other tasks register,
\* unregister or broadcast between its sends; a send that did not raise has
\* put the message on that websocket.
C2_BroadcastExactlyOnce ==
    \A c \in Conn :
        LET call == calls[c]
        IN  call.active =>
                /\ \A i \in 1..Len(call.attempts) :
                       \E e \in SeqToSet(call.snapshot) : e.ws = call.attempts[i]
                /\ \A e \in SeqToSet(call.snapshot) :
                       /\ e.client = call.exclude => Attempts(call, e.ws) = 0
                       /\ Attempts(call, e.ws) <= 1
                       /\ call.returned /\ e.client # call.exclude =>
                              Attempts(call, e.ws) = 1
                /\ \A i \in 1..Len(call.attempts) :
                       call.attempts[i] \notin call.failed =>
                           \E j \in 1..Len(outbox[call.attempts[i]]) :
                               SameMsg(outbox[call.attempts[i]][j], call.msg)

\* C2, its case: a call with an excluded client has returned after two sends,
\* and the registry is no longer the one it took its snapshot of.
C2_Witness ==
    \E c \in Conn :
        /\ calls[c].returned
        /\ calls[c].exclude = client_id[c]
        /\ Len(calls[c].attempts) = 2
        /\ calls[c].failed = {}
        /\ Items(calls[c].room) # calls[c].snapshot

\* C3: the first message a websocket is sent is the chat-history, it is the
\* only one, it holds the room's buffer as it was when the socket registered,
\* in buffer order, and so it precedes every live chat-message sent to it.
C3_HistoryThenLive ==
    [][\A c \in Conn :
          /\ Leaves(c, "refresh") /\ pc'[c] = "name" =>
                 outbox'[c] = <<ChatHistory(Buffer(meeting_code[c]))>>
          /\ outbox'[c] # <<>> =>
                 /\ outbox'[c][1].type = "chat-history"
                 /\ IsPrefix(outbox'[c][1].body, Buffer(meeting_code[c])')
                 /\ \A i \in 2..Len(outbox'[c]) : outbox'[c][i].type # "chat-history"]_vars

\* C3, its case: the joining socket was sent a chat-history of one event and
\* after it the live chat-message of an event appended later.
C3_Witness ==
    /\ Len(outbox["w3"]) >= 2
    /\ Len(outbox["w3"][1].body) >= 1
    /\ \E i \in 2..Len(outbox["w3"]) :
           /\ outbox["w3"][i].type = "chat-message"
           /\ \A j \in 1..Len(outbox["w3"][1].body) :
                  outbox["w3"][1].body[j].body # outbox["w3"][i].body

\* The step takes a frame for c from its socket.
Takes(c) == budget'.msgs[c] < budget.msgs[c]

\* C4: a step that takes an offer, answer or ice-candidate whose target is not
\* registered in the sender's room changes nothing but the frame count: nothing
\* is sent, no table and no registry entry changes, and the sender stays in its
\* message loop, registered as before.
C4_AbsentTargetNoOp ==
    [][\A c \in Conn :
          (/\ Takes(c)
           /\ frame'.type \in SignalTypes
           /\ frame'.target # None
           /\ ~DictHas(Items(meeting_code[c]), frame'.target))
          => /\ pc' = pc /\ pc[c] = "loop"
             /\ UNCHANGED <<db, args, active_connections, chat_messages, loc,
                            outbox, close_code, broken, clock, calls>>]_vars

\* C4, its case: the sender took a signal for an absent target, in a room that
\* has lost its registry entry, as the second frame of its loop.
C4_Witness ==
    /\ frame.type \in SignalTypes
    /\ frame.target = "B"
    /\ frame.ws = "w1"
    /\ pc["w1"] = "loop"
    /\ "r1" \notin DOMAIN active_connections
    /\ budget.msgs["w1"] = 0

\* C5: when the disconnect of the last registered client of a room pops it, the
\* room's key leaves the registry and the chat buffer stays as it was; no step
\* shortens or rewrites a chat buffer, and a socket that registers is sent the
\* whole buffer as its chat-history.
C5_LastLeaveKeepsChat ==
    [][\A c \in Conn :
          /\ (/\ Leaves(c, "unregister")
              /\ meeting_code[c] \in DOMAIN active_connections
              /\ \A e \in SeqToSet(Items(meeting_code[c])) : e.client = client_id[c])
             => /\ meeting_code[c] \notin DOMAIN active_connections'
                /\ chat_messages' = chat_messages
          /\ Leaves(c, "refresh") /\ pc'[c] = "name" =>
                 outbox'[c] = Append(outbox[c], ChatHistory(Buffer(meeting_code[c])))
          /\ \A m \in DOMAIN chat_messages :
                 /\ m \in DOMAIN chat_messages'
                 /\ IsPrefix(chat_messages[m], chat_messages'[m])]_vars

\* C5, its case: w1 chatted and left a room in which nobody remained, and w2,
\* which registered afterwards as B, was sent the chat event in its chat-history.
C5_Witness ==
    /\ client_id["w2"] = "B"
    /\ pc["w1"] = "done"
    /\ calls["w1"].msg.type # "user-left"
    /\ "r1" \in DOMAIN active_connections
    /\ pc["w2"] = "loop" /\ ~broken["w2"]
    /\ Len(outbox["w2"]) >= 1
    /\ Len(outbox["w2"][1].body) >= 1

\* The user-left message for client k.
UserLeft(k) == Msg("user-left", k, <<>>)

\* C6: the step of a disconnect that pops client X from the registry leaves no
\* entry for X; when other clients remain registered it starts a user-left
\* broadcast for X to all of them, which sends to each of them by the time it
\* returns; when none remains nothing is sent.
C6_UserLeftToRemaining ==
    [][\A c \in Conn :
          LET m == meeting_code[c]
              remaining == SelectSeq(Items(m), LAMBDA e : e.client # client_id[c])
          IN  /\ Leaves(c, "unregister") =>
                     /\ ~DictHas(Items(m)', client_id[c])
                     /\ remaining # <<>> =>
                            /\ calls'[c].active
                            /\ SameMsg(calls'[c].msg, UserLeft(client_id[c]))
                            /\ calls'[c].snapshot = remaining
                            /\ calls'[c].attempts = <<remaining[1].ws>>
                     /\ remaining = <<>> =>
                            /\ outbox' = outbox
                            /\ calls' = calls
                            /\ pc'[c] = "done"
              /\ (calls'[c].msg.type = "user-left" /\ calls'[c].returned) =>
                     \A e \in SeqToSet(calls'[c].snapshot) :
                         /\ Attempts(calls'[c], e.ws) = 1
                         /\ e.ws \notin calls'[c].failed =>
                                \E j \in 1..Len(outbox'[e.ws]) :
                                    SameMsg(outbox'[e.ws][j], UserLeft(client_id[c]))]_vars

\* C6, its case: A has left while B remained and B's websocket holds the
\* user-left for A; then B has left an empty room without a broadcast.
C6_Witness ==
    /\ client_id["w2"] = "B"
    /\ pc["w1"] = "done" /\ pc["w2"] = "done"
    /\ calls["w1"].returned /\ calls["w1"].msg.type = "user-left"
    /\ calls["w1"].attempts = <<"w2">>
    /\ \E j \in 1..Len(outbox["w2"]) : SameMsg(outbox["w2"][j], UserLeft("A"))
    /\ calls["w2"].msg.type # "user-left"
    /\ "r1" \notin DOMAIN active_connections

\* C9: a step that takes a malformed frame or a frame of an unknown type drops
\* it: the sender stays in its message loop, registered as before, no
\* disconnect cleanup starts and nothing is sent.
C9_BadFrameDropped ==
    [][\A c \in Conn :
          (Takes(c) /\ frame'.type \in {"malformed", "unknown"})
          => /\ pc'[c] = "loop"
             /\ UNCHANGED <<active_connections, outbox, participants>>]_vars

\* C10: when a send of a broadcast_to_meeting call raises, the call goes on: it
\* does not raise into its caller, by the time it returns it has sent to every
\* other recipient of its snapshot, and the websocket whose send raised is not
\* in the room's registry entry.
C10_FailedSendIsolated ==
    [][\A c \in Conn :
          /\ calls'[c].failed # calls[c].failed =>
                 pc'[c] \in {"bcast", "loop", "pquery", "done"}
          /\ (calls'[c].returned /\ calls'[c].failed # {}) =>
                 /\ \A e \in SeqToSet(calls'[c].snapshot) :
                        e.client # calls'[c].exclude =>
                            /\ Attempts(calls'[c], e.ws) = 1
                            /\ e.ws \notin calls'[c].failed =>
                                   \E j \in 1..Len(outbox'[e.ws]) :
                                       SameMsg(outbox'[e.ws][j], calls'[c].msg)
                 /\ \A ws \in calls'[c].failed :
                        ws \notin RegisteredIn(active_connections', calls'[c].room)]_vars

\* C10, its case: the first send of a call raised, the second delivered, and
\* the call has returned to the message loop.
C10_Witness ==
    \E c \in Conn :
        /\ calls[c].returned
        /\ Len(calls[c].attempts) = 2
        /\ calls[c].failed = {calls[c].attempts[1]}
        /\ pc[c] = "loop"

\* The websocket registered for client k in room m; None when there is none.
HandleOf(m, k) ==
    IF DictHas(Items(m), k) THEN Items(m)[DictGet(Items(m), k)].ws ELSE None

\* C11: a step that takes an offer, answer or ice-candidate whose target is
\* registered with a websocket on which the send raises leaves the sender in
\* its message loop and registered, and removes the target's websocket from
\* the room's registry entry.
C11_ForwardFailureScoped ==
    [][\A c \in Conn :
          LET m == meeting_code[c]
              target_ws == HandleOf(m, frame'.target)
          IN  (/\ Takes(c)
               /\ frame'.type \in SignalTypes
               /\ frame'.target # None
               /\ target_ws # None
               /\ Dead(target_ws))
              => /\ pc'[c] = "loop"
                 /\ c \in RegisteredIn(active_connections', m)
                 /\ target_ws \notin RegisteredIn(active_connections', m)]_vars

\* The places of a message handler at which a persistence call is pending.
HandlerDbPlaces ==
    {"chatlog", "chatcommit", "joinname", "joincommit", "toggle", "togglecommit",
     "togglelog"}

\* The places at which a message handler is about to broadcast.
HandlerCastPlaces == {"chatcast", "namecast", "togglecast"}

\* Whom the broadcast of a handler excludes: the sender for a name update,
\* nobody for a chat message or a toggle.
HandlerExclude(c, msg) ==
    IF msg.type = "participant-name-update" THEN client_id[c] ELSE None

\* C12: when a persistence call fails while a chat-message, join, audio-toggle
\* or video-toggle is handled, the handler goes on to its broadcast with the
\* message unchanged and the registry untouched; and whether or not a call
\* failed, the broadcast of a handler is called with that message for the room
\* as it is registered then, excluding the sender for a name update only, and
\* the sender is in its loop or still sending when the step is done.
C12_HandlerSurvivesDbFailure ==
    [][\A c \in Conn :
          /\ (/\ pc[c] \in HandlerDbPlaces
              /\ pc'[c] # pc[c]
              /\ budget'.dbfail < budget.dbfail) =>
                 /\ pc'[c] \in HandlerCastPlaces
                 /\ loc'[c].message = loc[c].message
                 /\ active_connections' = active_connections
                 /\ outbox' = outbox
          /\ (pc[c] \in HandlerCastPlaces /\ pc'[c] # pc[c]) =>
                 /\ pc'[c] \in {"loop", "bcast"}
                 /\ calls'[c].active
                 /\ calls'[c].msg = loc[c].message
                 /\ calls'[c].room = meeting_code[c]
                 /\ calls'[c].snapshot = Items(meeting_code[c])
                 /\ calls'[c].exclude = HandlerExclude(c, loc[c].message)]_vars

\* C12, its case: the one persistence failure of the run happened in the
\* sender's toggle handler, no row was updated, and both clients of the room
\* hold the toggle message.
C12_Witness ==
    /\ budget.dbfail = 0
    /\ pc["w1"] = "loop"
    /\ calls["w1"].msg = ToggleMessage("A", "audio", FALSE)
    /\ calls["w1"].returned
    /\ participants["w1"].audio_enabled
    /\ client_id["w3"] = "C"
    /\ \A ws \in {"w1", "w2"} :
           \E j \in 1..Len(outbox[ws]) :
               SameMsg(outbox[ws][j], ToggleMessage("A", "audio", FALSE))

\* C13: when a persistence call of handle_disconnect fails, the task goes on
\* to the registry cleanup with the registry untouched; and the cleanup step
\* pops the client id, removes the room's entry when it is emptied, and
\* otherwise calls the user-left broadcast for the members that remain.
C13_CleanupSurvivesDbFailure ==
    [][\A c \in Conn :
          LET m == meeting_code[c]
              remaining == DictPop(Items(m), client_id[c])
          IN  /\ (/\ pc[c] \in {"disconnect", "leave"}
                  /\ pc'[c] # pc[c]
                  /\ budget'.dbfail < budget.dbfail) =>
                     /\ pc'[c] = "unregister"
                     /\ active_connections' = active_connections
              /\ pc'[c] = "done" /\ pc[c] # "done" =>
                     \/ pc[c] = "unregister"
                     \/ pc[c] = "bcast" /\ calls[c].msg.type = "user-left"
              /\ Leaves(c, "unregister") =>
                     /\ ~DictHas(Items(m)', client_id[c])
                     /\ remaining = <<>> => m \notin DOMAIN active_connections'
                     /\ remaining # <<>> =>
                            /\ calls'[c].active
                            /\ SameMsg(calls'[c].msg, UserLeft(client_id[c]))
                            /\ calls'[c].exclude = None
                            /\ calls'[c].snapshot = remaining
                            /\ Len(calls'[c].attempts) = 1]_vars

\* C13, its case: the update of A's row failed in A's disconnect, the row is
\* still active, and yet A is unregistered and B holds the user-left for A.
C13_Witness ==
    /\ client_id["w2"] = "B"
    /\ budget.dbfail = 0
    /\ pc["w1"] = "done"
    /\ participants["w1"].is_active
    /\ "w1" \notin Registered("r1")
    /\ calls["w1"].returned
    /\ \E j \in 1..Len(outbox["w2"]) : SameMsg(outbox["w2"][j], UserLeft("A"))

\* The places of handle_websocket before the registration of lines 100-104.
SetupPlaces == {"idle", "count", "commit", "refresh"}

\* The task of c is inside handle_disconnect, or has returned from it.
InCleanup(c) ==
    \/ pc[c] \in {"disconnect", "leave", "unregister", "done"}
    \/ pc[c] = "bcast" /\ loc[c].ret = "done"

\* C14: a task that has registered ends only through handle_disconnect, which
\* it enters once and never leaves backwards: whether its loop ended by a
\* closed socket, by a failed send while joining or by an exception of a
\* handler, it is closed only before registering and is done only out of the
\* last step of handle_disconnect; a task that is done has no websocket in the
\* registry; and a task that has entered handle_disconnect is eventually done.
C14_CleanupExactlyOnce ==
    /\ [][\A c \in Conn :
             /\ InCleanup(c) => InCleanup(c)'
             /\ (pc'[c] = "disconnect" /\ pc[c] # "disconnect") =>
                    /\ ~InCleanup(c)
                    /\ pc[c] \notin {"idle", "count", "commit", "closed"}
                    /\ pc[c] = "refresh" =>
                           c \in RegisteredIn(active_connections', meeting_code[c])
             /\ (pc'[c] = "closed" /\ pc[c] # "closed") => pc[c] \in SetupPlaces
             /\ (pc'[c] = "done" /\ pc[c] # "done") =>
                    \/ pc[c] = "unregister"
                    \/ pc[c] = "bcast" /\ loc[c].ret = "done"
             /\ (pc[c] \notin SetupPlaces \cup {"closed"} /\ ~InCleanup(c)) =>
                    \/ pc'[c] \notin SetupPlaces \cup {"closed", "leave", "unregister", "done"}
                    \/ pc'[c] = pc[c]]_vars
    /\ [](\A c \in Conn : pc[c] = "done" => c \notin Registered(meeting_code[c]))
    /\ \A c \in Conn :
           (pc[c] = "disconnect") ~>
               (pc[c] = "done" /\ c \notin Registered(meeting_code[c]))

\* C14, its case: the loop of w1 ended by the exception of a malformed frame,
\* not by a closed socket, and its disconnect has run: the row is inactive and
\* the websocket is out of the registry.
C14_Witness ==
    /\ frame.type = "malformed"
    /\ frame.ws = "w1"
    /\ ~broken["w1"]
    /\ pc["w1"] = "done"
    /\ "w1" \in DOMAIN participants /\ ~participants["w1"].is_active
    /\ "w1" \notin Registered("r1")

\* The chat-messages from client k among the messages sent to ws, in the
\* order they were sent.
ChatFrom(ws, k) ==
    SelectSeq(outbox[ws], LAMBDA x : x.type = "chat-message" /\ x.cid = k)

\* C15: the loop takes a frame only when the handler of the previous frame
\* has returned: nothing of it is pending, its broadcast has returned; so the
\* chat events of one connection are in the buffer, and reach every websocket
\* they are sent to, in the order the connection's frames arrived.
C15_ArrivalOrder ==
    /\ [][\A c \in Conn :
             Takes(c) =>
                 /\ pc[c] = "loop"
                 /\ loc[c] = NoLoc
                 /\ calls[c].active => calls[c].returned]_vars
    /\ [](\A ws \in Conn, k \in Clients :
             \A i, j \in 1..Len(ChatFrom(ws, k)) :
                 i < j => ChatFrom(ws, k)[i].body[3] < ChatFrom(ws, k)[j].body[3])
    /\ [](\A ws \in Conn, k \in Clients :
             \A i \in 1..Len(ChatFrom(ws, k)) :
                 \E n \in 1..Len(Buffer("r1")) : Buffer("r1")[n] = ChatFrom(ws, k)[i])

\* C15, its case: the joining socket was sent both chat messages of A, and
\* the message of B as well.
C15_Witness ==
    /\ Len(ChatFrom("w3", "A")) = 2
    /\ Len(ChatFrom("w3", "B")) = 1
    /\ Len(ChatFrom("w2", "A")) = 2

\* C16: a websocket leaves the registry only by the disconnect of its own
\* connection, when a send to it fails, or when a newer connection registers
\* under its client id: no other step removes a websocket that is open, in
\* particular not the disconnect of the earlier connection of a client id
\* that has been registered again since.
C16_NewerHandleStays ==
    [][\A c \in Conn :
          (/\ c \in Registered(meeting_code[c])
           /\ c \notin RegisteredIn(active_connections', meeting_code[c]))
          => \/ Leaves(c, "unregister")
             \/ Dead(c)
             \/ \E c2 \in Conn \ {c} :
                    /\ Leaves(c2, "refresh")
                    /\ client_id[c2] = client_id[c]
                    /\ c2 \in RegisteredIn(active_connections', meeting_code[c])]_vars

\* The leave events logged for the Participant row p.
LeaveEvents(p) == CopiesIn(MeetingLog(participants[p].meeting_id, p, "leave"), logs)

\* C17: every connection that has registered has a Participant row of its own,
\* and when its disconnect has completed without a failed persistence call
\* that row is inactive, has its leave time, and one leave event is logged for
\* it; also when its client id was used by another connection.
C17_OwnRowMarkedInactive ==
    \A c \in Conn :
        /\ pc[c] \notin SetupPlaces \cup {"closed"} =>
               /\ c \in DOMAIN participants
               /\ participants[c].client_id = client_id[c]
               /\ participants[c].meeting_id = meeting_code[c]
        /\ pc[c] = "done" =>
               /\ ~participants[c].is_active
               /\ participants[c].left_at
               /\ LeaveEvents(c) = 1

\* The websocket ws has been sent a message of this type.
Has(ws, type) == \E i \in 1..Len(outbox[ws]) : outbox[ws][i].type = type

\* The step of c that sends its chat-history, calls its user-joined broadcast,
\* sends its participants-update.
SendsHistory(c) == Leaves(c, "refresh") /\ pc'[c] = "name"
CallsJoined(c) == Leaves(c, "joined")
SendsParticipants(c) == Leaves(c, "psend") /\ pc'[c] = "loop"

\* What the join steps have in common in both orders: the row is committed
\* before the registration, the chat-history is sent in the step that
\* registers and is the first message on the websocket, and participants-update
\* is sent by send_participants_update only.
JoinOrderBase(c) ==
    /\ SendsHistory(c) =>
           /\ c \in DOMAIN participants
           /\ c \in RegisteredIn(active_connections', meeting_code[c])
           /\ outbox'[c] = <<ChatHistory(Buffer(meeting_code[c]))>>
    /\ (Has(c, "participants-update")' /\ ~Has(c, "participants-update")) =>
           SendsParticipants(c)
    /\ SendsParticipants(c) =>
           /\ outbox[c] # <<>> /\ outbox[c][1].type = "chat-history"
           /\ outbox'[c][Len(outbox'[c])].type = "participants-update"

\* C18: in a join the row is committed, the websocket is registered, the new
\* connection is sent chat-history and then participants-update, and only
\* then is user-joined broadcast to the others.
C18_JoinedAfterParticipants ==
    [][\A c \in Conn :
          /\ JoinOrderBase(c)
          /\ CallsJoined(c) => Has(c, "participants-update")]_vars

\* C18, as the code orders it: the row is committed, the websocket is
\* registered and sent chat-history, then user-joined is broadcast to the
\* others, and only when that broadcast has returned is participants-update
\* sent to the new connection.
C18_ParticipantsAfterJoined ==
    [][\A c \in Conn :
          /\ JoinOrderBase(c)
          /\ CallsJoined(c) =>
                 /\ outbox[c] # <<>> /\ outbox[c][1].type = "chat-history"
                 /\ ~Has(c, "participants-update")
                 /\ calls'[c].msg = Msg("user-joined", client_id[c], <<loc[c].display_name>>)
                 /\ calls'[c].exclude = client_id[c]
          /\ SendsParticipants(c) =>
                 /\ calls[c].msg.type = "user-joined"
                 /\ calls[c].returned
                 /\ ~Has(c, "participants-update")]_vars

\* C18, its case: B's join has sent user-joined to A's websocket and B has its
\* chat-history, while B's participants-update is still to be sent.
C18_Witness ==
    /\ client_id["w2"] = "B"
    /\ pc["w2"] \in {"pquery", "psend"}
    /\ outbox["w2"] = <<ChatHistory(<<>>)>>
    /\ calls["w2"].returned
    /\ \E j \in 1..Len(outbox["w1"]) :
           SameMsg(outbox["w1"][j], Msg("user-joined", "B", <<None>>))

\* C19: no step changes is_host of a row that exists, so no participant
\* becomes host when the host leaves; the is_host a join computes is whether
\* its count of the room's active rows was zero, and the row it inserts
\* carries that value: a join that counted an active participant is not host.
C19_NoHostReelection ==
    [][/\ \A r \in DOMAIN participants :
              /\ r \in DOMAIN participants'
              /\ participants'[r].is_host = participants[r].is_host
       /\ \A c \in Conn :
              /\ (Leaves(c, "count") /\ pc'[c] = "commit") =>
                     loc'[c].is_host = (ActiveCount(meeting_code[c]) = 0)
              /\ (c \notin DOMAIN participants /\ c \in DOMAIN participants') =>
                     /\ pc[c] = "commit"
                     /\ participants'[c].is_host = loc[c].is_host]_vars

\* C19, its case: the host has left, the other participant is still active,
\* has finished joining, and is not host: the room has no active host.
C19_Witness ==
    /\ pc["w1"] = "done"
    /\ participants["w1"].is_host /\ ~participants["w1"].is_active
    /\ pc["w2"] = "loop"
    /\ participants["w2"].is_active /\ ~participants["w2"].is_host
    /\ ActiveHosts("r1") = {}

\* The toggle events logged for the Participant row p of meeting m.
ToggleEvents(m, p, type) == CopiesIn(MeetingLog(m, p, ToggleEvent(type)), logs)

Holds(ws, msg) == \E j \in 1..Len(outbox[ws]) : outbox[ws][j] = msg

\* C21: the step that takes a chat-message appends one chat event, with the
\* sender's client id, the text and display name of the frame and the time of
\* the step, to the end of the buffer of the sender's room, and no other step
\* changes a buffer that holds events; the handler then calls the broadcast
\* with that event for everyone registered in the room then, excluding nobody,
\* and when the call has returned every websocket of its snapshot on which the
\* send did not raise holds the event, the sender's too; the events of a
\* buffer are in the order in which their handling began.
C21_ChatAppendedAndBroadcast ==
    /\ [][\A c \in Conn :
             LET m == meeting_code[c]
             IN  /\ (Takes(c) /\ frame'.type = "chat-message") =>
                        /\ \E in \in ChatInputs :
                               Buffer(m)' = Append(Buffer(m), ChatData(client_id[c], in, clock))
                        /\ loc'[c].message = Buffer(m)'[Len(Buffer(m)')]
                        /\ clock' > clock
                        /\ \A m2 \in DOMAIN chat_messages \ {m} :
                               chat_messages'[m2] = chat_messages[m2]
                 /\ Buffer(m)' # Buffer(m) =>
                        \E c2 \in Conn :
                            /\ meeting_code[c2] = m
                            /\ Takes(c2) /\ frame'.type = "chat-message"
                 /\ Leaves(c, "chatcast") =>
                        /\ calls'[c].msg = loc[c].message
                        /\ \E n \in 1..Len(Buffer(m)) : Buffer(m)[n] = loc[c].message
                        /\ calls'[c].exclude = None
                        /\ calls'[c].snapshot = Items(m)]_vars
    /\ [](\A c \in Conn :
             (calls[c].msg.type = "chat-message" /\ calls[c].returned) =>
                 \A e \in SeqToSet(calls[c].snapshot) :
                     /\ Attempts(calls[c], e.ws) = 1
                     /\ e.ws \notin calls[c].failed => Holds(e.ws, calls[c].msg))
    /\ [](\A m \in DOMAIN chat_messages :
             \A i, j \in 1..Len(chat_messages[m]) :
                 i < j => chat_messages[m][i].body[3] < chat_messages[m][j].body[3])

\* C21, its case: A's event was appended before B's, B's broadcast returned
\* before A's was called, and in the end both hold both events, each its own.
C21_Witness ==
    /\ Len(Buffer("r1")) >= 2
    /\ Buffer("r1")[1].cid = "A" /\ Buffer("r1")[2].cid = "B"
    /\ calls["w1"].returned /\ calls["w2"].returned
    /\ calls["w1"].msg = Buffer("r1")[1]
    /\ calls["w2"].msg = Buffer("r1")[2]
    /\ Holds("w1", Buffer("r1")[1]) /\ Holds("w2", Buffer("r1")[2])
    /\ Holds("w1", Buffer("r1")[2]) /\ Holds("w2", Buffer("r1")[1])
    /\ \E i, j \in 1..Len(outbox["w1"]) :
           /\ i < j
           /\ outbox["w1"][i] = Buffer("r1")[2]
           /\ outbox["w1"][j] = Buffer("r1")[1]

\* The request q returns in this step.
Returns(q) == http[q].pc # "done" /\ http'[q].pc = "done"

\* The ids of the rows of meeting m that are active.
ActiveIds(m) ==
    {r \in DOMAIN participants :
        participants[r].meeting_id = m /\ participants[r].is_active = TRUE}

\* C22: the step in which get_meeting counts returns 200 with participant_count
\* equal to the number of the meeting's Participant rows that are active then,
\* and the step in which get_participants selects returns exactly those rows,
\* each with is_active true, whatever joins and disconnects came before; for a
\* meeting no row names they have returned 0 and the empty list.
C22_ActiveParticipantsReported ==
    /\ [][\A q \in Req :
             /\ (Returns(q) /\ http[q].pc = "count") =>
                    /\ http'[q].response.status = 200
                    /\ http'[q].response.code = http[q].code
                    /\ http'[q].response.participant_count =
                           Cardinality(ActiveIds(http[q].code))
             /\ (Returns(q) /\ http[q].pc = "list") =>
                    /\ http'[q].response.status = 200
                    /\ {x.id : x \in http'[q].response.rows} = ActiveIds(http[q].code)
                    /\ Cardinality(http'[q].response.rows) =
                           Cardinality(ActiveIds(http[q].code))
                    /\ \A x \in http'[q].response.rows :
                           /\ x.is_active
                           /\ x.client_id = participants[x.id].client_id
                           /\ x.is_host = participants[x.id].is_host]_vars
    /\ [](\A q \in Req :
             (/\ http[q].pc = "done"
              /\ http[q].response.status = 200
              /\ http[q].op \in {"get", "list"}
              /\ \A r \in DOMAIN participants :
                     participants[r].meeting_id # http[q].code) =>
                 /\ http[q].response.participant_count = 0
                 /\ http[q].response.rows = {})

\* C22, its case: A has left room r1 and B has joined it, and get_participants
\* has returned B's row alone while A's inactive row is in the table.
C22_Witness ==
    \E q \in Req :
        /\ http[q].pc = "done"
        /\ http[q].op = "list"
        /\ http[q].code = "r1"
        /\ {x.id : x \in http[q].response.rows} = {"w2"}
        /\ "w1" \in DOMAIN participants
        /\ ~participants["w1"].is_active
        /\ pc["w1"] = "done"

\* C23: the step in which get_meeting or get_participants looks up a code that
\* no Meeting row has returns 404 with the detail 'Meeting not found' and
\* changes no table, no registry entry and no chat buffer; they return 404 in
\* no other case.
C23_UnknownCodeNotFound ==
    /\ [][\A q \in Req :
             (/\ http[q].pc = "new"
              /\ http'[q].pc # "new"
              /\ http'[q].op \in {"get", "list"}) =>
                 IF http'[q].code \in DOMAIN meetings
                 THEN http'[q].pc \in {"count", "list"}
                 ELSE /\ http'[q].pc = "done"
                      /\ http'[q].response = ErrorResponse(404, "Meeting not found")
                      /\ UNCHANGED <<db, active_connections, chat_messages, outbox>>]_vars
    /\ [](\A q \in Req :
             http[q].response.status = 404 =>
                 /\ http[q].op \in {"get", "list"}
                 /\ http[q].pc = "done"
                 /\ http[q].response.detail = "Meeting not found")

\* C23, its case: get_participants was called with the code zz, which no
\* Meeting row has, and has returned 404; the tables are as they were.
C23_Witness ==
    \E q \in Req :
        /\ http[q].pc = "done"
        /\ http[q].op = "list"
        /\ http[q].code = "zz"
        /\ http[q].response.status = 404
        /\ "zz" \notin DOMAIN meetings

\* The create requests that have inserted their row.
Created == {q \in Req : http[q].op = "create" /\ http[q].code # None}

C25_MaxParticipantsValidated ==
    /\ [][\A q \in Req :
             /\ (http[q].pc = "new" /\ http'[q].op = "create") =>
                    LET in == http'[q].body
                    IN  IF in.given /\ (in.value < 2 \/ in.value > 50)
                        THEN /\ http'[q].pc = "done"
                             /\ http'[q].response.status = 422
                             /\ meetings' = meetings
                        ELSE /\ http'[q].response.status # 422
                             /\ http'[q].pc = "refresh" =>
                                    /\ meetings'[http'[q].code].max_participants =
                                           (IF in.given THEN in.value ELSE 10)
                                    /\ meetings'[http'[q].code].is_active
             /\ (Returns(q) /\ http[q].pc = "refresh") =>
                    /\ http'[q].response.status = 200
                    /\ http'[q].response.participant_count = 0
                    /\ http'[q].response.is_active
                    /\ http'[q].response.max_participants =
                           (IF http[q].body.given THEN http[q].body.value ELSE 10)]_vars
    /\ [](\A code \in DOMAIN meetings :
             /\ meetings[code].max_participants >= 2
             /\ meetings[code].max_participants <= 50)
    /\ [](\A q \in Req :
             http[q].response.status = 422 =>
                 /\ http[q].op = "create" /\ http[q].code = None
                 /\ http[q].body.given
                 /\ http[q].body.value \notin 2..50)

\* C25, its case: a create_meeting with max_participants 51 was rejected and
\* the table holds the meetings it held.
C25_Witness ==
    \E q \in Req :
        /\ http[q].pc = "done"
        /\ http[q].op = "create"
        /\ http[q].body = [given |-> TRUE, value |-> 51]
        /\ http[q].response.status = 422
        /\ meetings = MeetingRows

\* The step in which the join handler of c looks up its row and finds none.
FindsNoRow(c) == Leaves(c, "joinname") /\ RowsByClient(client_id[c]) = {}

\* C26: when the join handler finds no Participant row for the sender's client
\* id, no row is changed and the handler returns without a broadcast.
C26_MissingRecordNoBroadcast ==
    [][\A c \in Conn :
          FindsNoRow(c) =>
              /\ participants' = participants
              /\ pc'[c] = "loop"
              /\ calls' = calls]_vars

\* C26, as the code has it: when the join handler finds no Participant row for
\* the sender's client id, no row is changed, and the handler goes on to call
\* the participant-name-update broadcast with the name of the frame, for the
\* room as it is registered then, excluding the sender.
C26_MissingRecordStillBroadcast ==
    [][\A c \in Conn :
          /\ FindsNoRow(c) =>
                 /\ participants' = participants
                 /\ logs' = logs
                 /\ pc'[c] = "namecast"
                 /\ loc'[c].message = loc[c].message
                 /\ loc[c].message = NameUpdate(client_id[c], loc[c].display_name)
          /\ Leaves(c, "namecast") =>
                 /\ participants' = participants
                 /\ calls'[c].msg = NameUpdate(client_id[c], loc[c].display_name)
                 /\ calls'[c].exclude = client_id[c]
                 /\ calls'[c].snapshot = Items(meeting_code[c])]_vars

\* C26, its case: A's row was deleted, A announced the name Ann, no row has
\* that name, and B's websocket holds the name update while A's does not.
C26_Witness ==
    /\ RowsByClient("A") = {}
    /\ frame.type = "join" /\ frame.ws = "w1"
    /\ pc["w1"] = "loop"
    /\ \A r \in DOMAIN participants : participants[r].display_name = None
    /\ Holds("w2", NameUpdate("A", "Ann"))
    /\ ~Holds("w1", NameUpdate("A", "Ann"))

\* C27: a step that takes an offer, answer or ice-candidate without a target,
\* or with an empty one, changes nothing but the frame count: nothing is sent
\* to any websocket, the sender's included, no table, registry entry or chat
\* buffer changes, no socket is closed, and the sender stays in its message
\* loop.
C27_NoTargetDropped ==
    [][\A c \in Conn :
          (/\ Takes(c)
           /\ frame'.type \in SignalTypes
           /\ frame'.target \in NoTarget)
          => /\ pc[c] = "loop" /\ pc' = pc
             /\ outbox' = outbox
             /\ close_code' = close_code
             /\ c \in Registered(meeting_code[c]) =>
                    c \in RegisteredIn(active_connections', meeting_code[c])
             /\ UNCHANGED <<db, args, active_connections, chat_messages, loc,
                            broken, clock, calls>>]_vars

\* C27, its case: with B registered in the room, A's socket took a signal
\* with an empty target as its last frame, A is in its loop, and nobody was
\* sent a signal or an error.
C27_Witness ==
    /\ frame.type \in SignalTypes
    /\ frame.target = ""
    /\ frame.ws = "w1"
    /\ budget.msgs["w1"] = 0
    /\ pc["w1"] = "loop"
    /\ "w1" \in Registered("r1") /\ "w2" \in Registered("r1")
    /\ \A ws \in Conn : \A t \in SignalTypes \cup {"error"} : ~Has(ws, t)

\* The types the relay passes on without a handler of their own.
RelayedTypes == SignalTypes \cup ScreenShareTypes

\* The rows of a participants-update, as sent.
UpdateRows(msg) == {msg.body[2][x] : x \in DOMAIN msg.body[2]}

\* C28: the step that takes an offer, answer, ice-candidate, screen-share-start
\* or screen-share-stop, and every later step of the broadcast it starts,
\* leaves the Participant rows, the audit log, the meetings and the chat
\* buffers as they were; so screen_sharing of every row stays false, and
\* every participants-update reports screenSharing false for every row, also
\* one built after a screen-share-start was relayed.
C28_RelayStoresNothing ==
    /\ [][\A c \in Conn :
             /\ (Takes(c) /\ frame'.type \in RelayedTypes) =>
                    UNCHANGED <<meetings, participants, logs, chat_messages>>
             /\ (/\ calls'[c] # calls[c]
                 /\ calls'[c].msg.type \in ScreenShareTypes) =>
                    UNCHANGED <<meetings, participants, logs, chat_messages>>]_vars
    /\ [](\A r \in DOMAIN participants : participants[r].screen_sharing = FALSE)
    /\ [](\A ws \in Conn :
             \A i \in 1..Len(outbox[ws]) :
                 outbox[ws][i].type = "participants-update" =>
                     \A row \in UpdateRows(outbox[ws][i]) : row.screenSharing = FALSE)

\* C28, its case: the joining socket was registered when A's screen-share-start
\* was relayed, holds it, and was sent afterwards a participants-update in
\* which A's row has screenSharing false.
C28_Witness ==
    /\ client_id["w3"] = "C"
    /\ \E i, j \in 1..Len(outbox["w3"]) :
           /\ i < j
           /\ outbox["w3"][i] = Msg("screen-share-start", "A", <<>>)
           /\ outbox["w3"][j].type = "participants-update"
           /\ \E row \in UpdateRows(outbox["w3"][j]) :
                  row.clientId = "A" /\ row.screenSharing = FALSE

\* C29: a step that takes an offer, answer or ice-candidate whose target is
\* registered in the sender's room with a websocket on which the send does not
\* raise puts one message on that websocket, with the type of the frame, the
\* sender's client id as its from and the data of the frame, and nothing on
\* any other websocket; the registry, the tables and the chat buffers are as
\* they were and the sender stays in its loop.
C29_ForwardToOneHandle ==
    [][\A c \in Conn :
          LET m == meeting_code[c]
              target_ws == HandleOf(m, frame'.target)
          IN  (/\ Takes(c)
               /\ frame'.type \in SignalTypes
               /\ frame'.target \notin NoTarget
               /\ target_ws # None
               /\ ~Dead(target_ws))
              => /\ \E data \in SignalData :
                        outbox'[target_ws] =
                            Append(outbox[target_ws],
                                   Msg(frame'.type, client_id[c], <<data>>))
                 /\ \A ws \in Conn \ {target_ws} : outbox'[ws] = outbox[ws]
                 /\ pc[c] = "loop" /\ pc' = pc
                 /\ UNCHANGED <<db, args, active_connections, chat_messages,
                                close_code, calls>>]_vars

\* C29, its case: with A and B registered, A's socket took an answer for B as
\* its last frame, B's websocket holds it as its last message with from = A,
\* and A's websocket holds no signal.
C29_Witness ==
    /\ frame.type = "answer" /\ frame.target = "B" /\ frame.ws = "w1"
    /\ budget.msgs["w1"] = 0
    /\ pc["w1"] = "loop"
    /\ HandleOf("r1", "B") = "w2" /\ HandleOf("r1", "A") = "w1"
    /\ outbox["w2"] # <<>>
    /\ outbox["w2"][Len(outbox["w2"])] = Msg("answer", "A", <<"sdp">>)
    /\ \A t \in SignalTypes : ~Has("w1", t)

\* The messages a client causes that go to the others only, and those that go
\* to the whole room.
ToOthersTypes == {"user-joined", "participant-name-update"} \cup ScreenShareTypes
ToAllTypes == {"chat-message", "audio-toggle", "video-toggle"}

\* C30: a broadcast of user-joined, participant-name-update, screen-share-start
\* or screen-share-stop carries the client id of the connection that caused it
\* and excludes that client id: it makes no send to the websocket registered
\* under it, and no step puts such a message on the websocket that is
\* registered under the message's client id; a broadcast of chat-message,
\* audio-toggle or video-toggle carries the sender's client id and excludes
\* nobody: when it has returned, the websocket that was registered under the
\* sender's client id holds the message too.
C30_SenderExcludedOrIncluded ==
    /\ [](\A c \in Conn :
             LET call == calls[c]
             IN  /\ (call.active /\ call.msg.type \in ToOthersTypes) =>
                        /\ call.msg.cid = client_id[c]
                        /\ call.exclude = client_id[c]
                        /\ \A e \in SeqToSet(call.snapshot) :
                               e.client = client_id[c] => Attempts(call, e.ws) = 0
                 /\ (call.active /\ call.msg.type \in ToAllTypes) =>
                        /\ call.msg.cid = client_id[c]
                        /\ call.exclude = None
                        /\ call.returned =>
                               \A e \in SeqToSet(call.snapshot) :
                                   e.client = client_id[c] =>
                                       /\ Attempts(call, e.ws) = 1
                                       /\ e.ws \notin call.failed => Holds(e.ws, call.msg))
    /\ [][\A ws \in Conn :
             (/\ outbox'[ws] # outbox[ws]
              /\ outbox'[ws][Len(outbox'[ws])].type \in ToOthersTypes) =>
                 HandleOf(meeting_code[ws], outbox'[ws][Len(outbox'[ws])].cid) # ws]_vars
    /\ [][\A c \in Conn :
             (/\ calls'[c] # calls[c]
              /\ calls'[c].msg.type \in ToAllTypes
              /\ calls[c].msg # calls'[c].msg \/ calls[c].returned) =>
                 /\ calls'[c].snapshot = Items(meeting_code[c])
                 /\ c \in Registered(meeting_code[c]) =>
                        \E e \in SeqToSet(calls'[c].snapshot) : e.ws = c]_vars

\* C30, its case: C has joined and A and B hold its user-joined while C's own
\* websocket does not; A has toggled its audio and A's own websocket holds the
\* audio-toggle, as B's and C's do.
C30_Witness ==
    /\ client_id["w3"] = "C"
    /\ pc["w3"] = "loop"
    /\ Holds("w1", Msg("user-joined", "C", <<None>>))
    /\ Holds("w2", Msg("user-joined", "C", <<None>>))
    /\ ~Has("w3", "user-joined")
    /\ calls["w1"].returned
    /\ \A ws \in Conn : Holds(ws, ToggleMessage("A", "audio", FALSE))

\* C31: a chat buffer is append-only: in every step every room that has a
\* buffer keeps it, and the buffer before the step is an initial part of the
\* buffer after it, at most one event longer; so the buffer of any state is
\* an initial part of the buffer of every later state, whatever joins,
\* disconnects and failed sends happen in between.
C31_ChatBufferAppendOnly ==
    [][\A m \in DOMAIN chat_messages :
          /\ m \in DOMAIN chat_messages'
          /\ Len(chat_messages'[m]) \in {Len(chat_messages[m]), Len(chat_messages[m]) + 1}
          /\ \A i \in 1..Len(chat_messages[m]) :
                 chat_messages'[m][i] = chat_messages[m][i]]_vars

\* C31, its case: the room holds two events, a send of a broadcast has failed
\* and its websocket was pruned, another socket has joined since the first
\* event, and everyone has left: the registry has no entry for the room.
C31_Witness ==
    /\ Len(Buffer("r1")) = 2
    /\ "r1" \notin DOMAIN active_connections
    /\ pc["w1"] = "done" /\ pc["w2"] = "done"
    /\ \E c \in Conn : calls[c].failed # {}
    /\ Len(outbox["w2"]) >= 1 /\ Len(outbox["w2"][1].body) = 1

\* The kinds of message whose handling a second time is to change nothing.
IdempotentTypes ==
    RelayedTypes \cup {"participant-name-update", "audio-toggle", "video-toggle"}

\* What C32 compares: the Participant rows, the registry and the chat buffers.
RelayState == <<participants, active_connections, chat_messages>>

\* The number of positions of websocket ws's outbox that hold msg.
Copies(ws, msg) == Cardinality({i \in 1..Len(outbox[ws]) : outbox[ws][i] = msg})

\* C32: a second delivery in succession of the same message changes nothing
\* except for chat. A signalling or screen-share frame equal to the
\* connection's previous frame is taken, and every step of the handler of a
\* join or toggle whose message equals the one the connection broadcast last
\* is made, and every send of a broadcast of such a message goes on, with the
\* Participant rows, the registry and the chat buffers unchanged; while every
\* chat-message taken appends one event that the buffer did not hold.
C32_RedeliveryIdempotent ==
    [][\A c \in Conn :
          /\ (/\ Takes(c)
              /\ frame'.type \in RelayedTypes
              /\ frame' = frame) => UNCHANGED RelayState
          /\ (/\ pc'[c] # pc[c] \/ calls'[c] # calls[c]
              /\ pc[c] \in HandlerDbPlaces \cup HandlerCastPlaces
              /\ loc[c].message.type \in IdempotentTypes
              /\ calls[c].returned
              /\ loc[c].message = calls[c].msg) => UNCHANGED RelayState
          /\ (/\ calls'[c] # calls[c]
              /\ calls[c].msg.type \in IdempotentTypes
              /\ calls'[c].msg = calls[c].msg) => UNCHANGED RelayState
          /\ (Takes(c) /\ frame'.type = "chat-message") =>
                 LET m == meeting_code[c]
                 IN  /\ Len(chat_messages'[m]) = Len(chat_messages[m]) + 1
                     /\ IsPrefix(chat_messages[m], chat_messages'[m])
                     /\ \A i \in 1..Len(chat_messages[m]) :
                            chat_messages[m][i] # chat_messages'[m][Len(chat_messages'[m])]
                     /\ UNCHANGED <<participants, active_connections>>]_vars

\* C32, its case: the host has sent audio-toggle {enabled: false} twice and
\* both were handled: the other client holds the message twice and the host's
\* row has audio_enabled false.
C32_Witness ==
    /\ budget.msgs["w1"] = 0
    /\ pc["w1"] = "loop"
    /\ Copies("w2", ToggleMessage("A", "audio", FALSE)) = 2
    /\ \E r \in DOMAIN participants :
           /\ participants[r].client_id = "A"
           /\ participants[r].audio_enabled = FALSE

\* C32, the chat case: two chat-message frames of the same content from the
\* host left two events in the buffer.
C32_WitnessChat ==
    /\ budget.msgs["w1"] = 0
    /\ Len(Buffer("r1")) = 2
    /\ Buffer("r1")[1] # Buffer("r1")[2]
    /\ Buffer("r1")[1].body[1] = Buffer("r1")[2].body[1]

\* The active_meetings of the root endpoint: len(active_connections).
ActiveMeetings == Cardinality(DOMAIN active_connections)

\* The rooms that have at least one registered client.
OccupiedRooms == {m \in DOMAIN active_connections : Registered(m) # {}}

\* C33: in every reachable state no room key of the registry maps to an empty
\* table, so that the root endpoint's active_meetings is the number of rooms
\* with at least one registered client.
C33_NoEmptyRoomEntry ==
    /\ \A m \in DOMAIN active_connections : active_connections[m] # <<>>
    /\ ActiveMeetings = Cardinality(OccupiedRooms)

\* The chat events of the chat-history messages sent to websocket ws.
HistoryEvents(ws) ==
    UNION {{outbox[ws][i].body[j] : j \in 1..Len(outbox[ws][i].body)} :
               i \in {n \in 1..Len(outbox[ws]) : outbox[ws][n].type = "chat-history"}}

\* The chat events sent to websocket ws as live chat-message broadcasts.
LiveEvents(ws) ==
    {outbox[ws][i] : i \in {n \in 1..Len(outbox[ws]) : outbox[ws][n].type = "chat-message"}}

\* No live chat-message is sent twice to the same websocket.
NoLiveEventTwice ==
    \A ws \in Conn :
        \A i, j \in 1..Len(outbox[ws]) :
            (i # j /\ outbox[ws][i].type = "chat-message") =>
                outbox[ws][i] # outbox[ws][j]

\* C34: no connection is sent the same chat event twice: no event of the
\* chat-history sent to a connection is also sent to it as a live
\* chat-message, and no live chat-message is sent to it twice.
C34_NoEventTwice ==
    /\ NoLiveEventTwice
    /\ \A ws \in Conn : HistoryEvents(ws) \cap LiveEvents(ws) = {}

\* The positions of websocket ws's outbox at which event e was sent live.
LiveAt(ws, e) == {n \in 1..Len(outbox[ws]) : outbox[ws][n] = e}

\* C35: live delivery follows buffer order: for two events of a room's buffer
\* sent by different clients, the earlier in the buffer is sent to every
\* websocket that is sent both as live chat-messages before the later one.
C35_LiveOrderIsBufferOrder ==
    \A m \in DOMAIN chat_messages :
        \A i, j \in 1..Len(chat_messages[m]) :
            (i < j /\ chat_messages[m][i].cid # chat_messages[m][j].cid) =>
                \A ws \in Conn :
                    \A p \in LiveAt(ws, chat_messages[m][i]) :
                        \A q \in LiveAt(ws, chat_messages[m][j]) : p < q

\* The client ids that websocket ws has been told of: those listed in a
\* participants-update sent to it and those of the user-joined sent to it.
ToldOf(ws) ==
    UNION {IF outbox[ws][i].type = "participants-update"
           THEN {outbox[ws][i].body[1][j] : j \in 1..Len(outbox[ws][i].body[1])}
           ELSE IF outbox[ws][i].type = "user-joined"
                THEN {outbox[ws][i].cid}
                ELSE {} : i \in 1..Len(outbox[ws])}

\* Both joins have completed: each task is in its message loop, its
\* participants-update sent and its user-joined broadcast returned; both are
\* registered in the room, under two client ids, and neither connection is
\* broken, so that no send to them has failed.
BothJoined(j, k) ==
    /\ j # k
    /\ client_id[j] # client_id[k]
    /\ meeting_code[j] = meeting_code[k]
    /\ pc[j] = "loop" /\ pc[k] = "loop"
    /\ {j, k} \subseteq Registered(meeting_code[j])
    /\ ~broken[j] /\ ~broken[k]

\* C36: no join is missed: once the joins of two distinct clients of a room
\* have completed, with no failed send, each of the two has been sent a
\* participants-update listing the other or a user-joined for the other.
C36_NoJoinMissed ==
    \A j, k \in Conn :
        BothJoined(j, k) => client_id[j] \in ToldOf(k)

\* C36, its case: the two joins interleaved, each registering before the
\* other's broadcast: each was sent the other's user-joined.
C36_Witness ==
    /\ BothJoined("w1", "w2")
    /\ Has("w1", "user-joined")
    /\ Has("w2", "user-joined")

\* The membership view of a client after the messages of seq from position i
\* on, starting from view v: a participants-update sets the view to its
\* participants list, a user-joined adds its client id, a user-left removes it.
RECURSIVE ViewFrom(_, _, _)
ViewFrom(seq, i, v) ==
    IF i > Len(seq)
    THEN v
    ELSE ViewFrom(seq, i + 1,
             IF seq[i].type = "participants-update"
             THEN {seq[i].body[1][j] : j \in 1..Len(seq[i].body[1])}
             ELSE IF seq[i].type = "user-joined" THEN v \cup {seq[i].cid}
             ELSE IF seq[i].type = "user-left" THEN v \ {seq[i].cid}
             ELSE v)

\* The membership view of the client of websocket ws.
View(ws) == ViewFrom(outbox[ws], 1, {})

\* The client ids registered in room m.
RegisteredIds(m) == {Items(m)[i].client : i \in 1..Len(Items(m))}

\* No join, disconnect or broadcast of room m is in progress.
Quiescent(m) ==
    \A c \in Conn :
        meeting_code[c] = m => pc[c] \in {"idle", "loop", "done", "closed"}

\* C37: the membership view of a connected client, one that is registered,
\* not broken and has its participants-update, equals the set of client ids
\* registered in its room whenever the room is quiescent.
C37_ViewConverges ==
    \A ws \in Conn :
        (/\ Quiescent(meeting_code[ws])
         /\ pc[ws] = "loop"
         /\ ~broken[ws]
         /\ ws \in Registered(meeting_code[ws])) =>
            View(ws) = RegisteredIds(meeting_code[ws])

\* No connection is registered for room m and no task of the room other than
\* c is in its setup, in its loop or in handle_disconnect.
RoomAtRest(m, c) ==
    /\ Registered(m) = {}
    /\ \A d \in Conn \ {c} :
           meeting_code[d] = m => pc[d] \in {"idle", "done", "closed"}

\* C38: a client whose join counts the active rows of its room (lines 55-61)
\* at a moment when no connection is registered for the room and no other
\* join or disconnect of the room is in progress is marked host, whatever
\* joins and disconnects came before.
C38_FirstInEmptyRoomIsHost ==
    [][\A c \in Conn :
          (/\ Leaves(c, "count")
           /\ pc'[c] = "commit"
           /\ RoomAtRest(meeting_code[c], c)) => loc'[c].is_host]_vars

\* Task c makes the step: its place or its broadcast call changes, or it
\* takes a frame.
Acts(c) == pc'[c] # pc[c] \/ calls'[c] # calls[c] \/ Takes(c)

\* The step leaves the entry of room m in the table t as it is in u: absent in
\* both or the same in both.
SameEntry(t, u, m) ==
    /\ m \in DOMAIN t <=> m \in DOMAIN u
    /\ m \in DOMAIN t => t[m] = u[m]

\* C39: rooms are isolated. Every step of the task of a connection of room R
\* (its join, its disconnect, the handling of any message it receives, the
\* sends of its broadcasts) sends only to websockets of room R and leaves the
\* registry entry and the chat buffer of every other room as they were; and
\* the registry entry of a room holds websockets of that room only, also when
\* a client id is registered in two rooms at once.
C39_RoomsIsolated ==
    /\ [][\A c \in Conn :
             Acts(c) =>
                 /\ \A ws \in Conn :
                        outbox'[ws] # outbox[ws] => meeting_code[ws] = meeting_code[c]
                 /\ \A m \in (DOMAIN active_connections \cup DOMAIN active_connections')
                             \ {meeting_code[c]} :
                        SameEntry(active_connections, active_connections', m)
                 /\ \A m \in (DOMAIN chat_messages \cup DOMAIN chat_messages')
                             \ {meeting_code[c]} :
                        SameEntry(chat_messages, chat_messages', m)]_vars
    /\ [](\A m \in DOMAIN active_connections :
             \A i \in 1..Len(active_connections[m]) :
                 meeting_code[active_connections[m][i].ws] = m)

\* C39, its case: client id A was registered in r1 and in r2 at once; the one
\* of r2 has sent a chat-message and the one of r1 has left: r2 still holds A
\* and the event, r1 holds B and no event, and the websocket of r2 was sent
\* no user-left.
C39_Witness ==
    /\ pc["w1"] = "done"
    /\ pc["w3"] = "loop"
    /\ Items("r2") = <<[client |-> "A", ws |-> "w3"]>>
    /\ RegisteredIds("r1") = {"B"}
    /\ Len(Buffer("r2")) = 1
    /\ Buffer("r1") = <<>>
    /\ Has("w3", "chat-message")
    /\ ~Has("w3", "user-left")
    /\ ~Has("w2", "chat-message")

\* C40: the capacity limit bounds the relay: in every reachable state the
\* number of client ids registered in a room, and the number of its active
\* Participant rows, is at most the max_participants of its Meeting.
C40_CapacityBoundsRoom ==
    \A m \in DOMAIN meetings :
        /\ Cardinality(RegisteredIds(m)) <= meetings[m].max_participants
        /\ ActiveCount(m) <= meetings[m].max_participants

\* All three clients of SpecCapacity have joined room r2.
ThreeInRoomOfTwo ==
    /\ meetings["r2"].max_participants = 2
    /\ \A c \in Conn : pc[c] = "loop"
    /\ RegisteredIds("r2") = {"A", "B", "C"}
    /\ ActiveCount("r2") = 3

====
